---- MODULE Spec2Model ----
(***************************************************************************)
(* simple-menu: the navigation engine.                                     *)
(*                                                                         *)
(*   Spec       Menu.execute / Menu.show / Interface.run / run_menu and    *)
(*              ItemExternal.execute, as a stack of Menu.execute()         *)
(*              activations that may cross process boundaries.             *)
(*   SpecCache  the text-resolution fan-out of Menu.show() (asyncio.gather *)
(*              over set_text_wrapper) with BaseItem.get_shared_data().    *)
(*   SpecRegistry  get_item_class and the exit of the process on an       *)
(*              unknown item type.                                         *)
(*   SpecPipewire  Pipewire.build() and its pw-dump attempts.              *)
(*   SpecFanOut the fan-out of one show() under the event loop's fairness. *)
(*   SpecNest   the same fan-out with a selected Menu executed in the       *)
(*              process, on the same BaseItem.shared.                      *)
(*   SpecDecode BaseItem.str2item_texts over joined fields.                *)
(*   SpecInline MenuInline.set_items over any value and separator list.    *)
(*   SpecConfig get_configuration's choice of the interface, and the       *)
(*              adapter Menu.show() builds from it.                        *)
(*   SpecHelper the privileged helper: sudo_helper.Helper.                 *)
(*   SpecExternal a MenuExternal's execute(): the options its program      *)
(*              declares against the loop they should govern.              *)
(*   SpecOptions the options of the root Menu through main_async's string  *)
(*              and Menu.value2menu_options.                               *)
(*   SpecRun    one Menu.show() from the resolved children to the return   *)
(*              of run_menu: the visible list, the row to highlight, the   *)
(*              item the picker's output names.                            *)
(*                                                                         *)
(* Strings are sequences of one-character strings, so that rstrip,         *)
(* splitlines, replace and line equality are computed, not assumed.        *)
(***************************************************************************)
EXTENDS Integers, Sequences, FiniteSets, TLC

VARIABLES
    stack,      \* Menu.execute() activations, outermost first
    exc,        \* the exception propagating in the running process
    exitCode,   \* <<code>> once the outermost process has exited, <<>> before
    interface,  \* configuration.interface: "rofi" or "fzf"
    showpc,     \* SpecCache: where the current Menu.show() is
    tasks,      \* SpecCache: the set_text_wrapper tasks still referred to
    shared,     \* SpecCache: BaseItem.shared, variant -> value (Absent: no key)
    locked,     \* SpecCache: variant -> whether <variant class>.lock is held
    waiters,    \* SpecCache: variant -> FIFO of tasks waiting for the lock
    calls,      \* SpecCache: variant -> set_shared_data() calls begun in this show()
    leaked,     \* SpecCache: variants that had an earlier show's task in flight
    outer,      \* SpecCache: the show()s waiting for a nested Menu.execute()
    tokens,     \* SpecDecode: the fields the text was joined from
    token_separator,    \* SpecDecode: the delimiter
    encoded,    \* SpecDecode: the string handed to str2item_texts
    decoded,    \* SpecDecode: what str2item_texts returned, <<>> before
    unpacked,   \* SpecDecode: a variant's unpacking of the value, <<>> before
    items_instances,    \* SpecRun: the declared children after set_text()
    interface_items,    \* SpecRun: Interface.items
    interface_last_item_id, \* SpecRun: Interface.last_item_id
    selected,   \* SpecRun: the row Interface.run() hands to run_menu
    picker_output,  \* SpecRun: the picker's return code and stdout
    run_result, \* SpecRun: what run_menu ended with
    runpc,      \* SpecRun: where the show() of SpecRun is
    separators, \* SpecInline: configuration.token_separators
    inline_value,   \* SpecInline: the value of a MenuInline
    inline_items,   \* SpecInline: what MenuInline.set_items() ended with
    requested_interface,    \* SpecConfig: --interface, or None
    environ,    \* SpecConfig: the environment variables that are set
    data,       \* SpecConfig: the keys of the configuration file
    configuration_interface,    \* SpecConfig: Configuration.interface
    interface_class,    \* SpecConfig: the adapter Menu.show() builds
    helper_args,    \* SpecHelper: the arguments of `helper`
    helper_host,    \* SpecHelper: the file, the allow-lists, the services
    helper_result,  \* SpecHelper: what the helper did and ended with
    external,   \* SpecExternal: a MenuExternal and its Menu.execute()
    options,    \* SpecOptions: the menu command's options and the Menu built
    registry,   \* SpecRegistry: a name handed to get_item_class, and the end
    pipewire    \* SpecPipewire: Pipewire.build() and its pw-dump attempts

navVars   == <<stack, exc, exitCode, interface>>
cacheVars == <<showpc, tasks, shared, locked, waiters, calls, leaked, outer>>
decodeVars == <<tokens, token_separator, encoded, decoded, unpacked>>
runVars   == <<items_instances, interface_items, interface_last_item_id,
               selected, picker_output, run_result, runpc>>
inlineVars == <<separators, inline_value, inline_items>>
configVars == <<requested_interface, environ, data, configuration_interface,
                interface_class>>
helperVars == <<helper_args, helper_host, helper_result>>
unitVars == <<external, options, registry, pipewire>>
vars      == <<stack, exc, exitCode, interface,
               showpc, tasks, shared, locked, waiters, calls, leaked, outer,
               tokens, token_separator, encoded, decoded, unpacked,
               items_instances, interface_items, interface_last_item_id,
               selected, picker_output, run_result, runpc,
               separators, inline_value, inline_items,
               requested_interface, environ, data, configuration_interface,
               interface_class, helper_args, helper_host, helper_result,
               external, options, registry, pipewire>>

----------------------------------------------------------------------------
(* Bounds of the model *)

\* Longest chain of nested Menu.execute() activations (in-process or not).
MaxDepth == 3
\* Most children one Menu.show() resolves concurrently.
MaxSiblings == 3
\* Most tasks alive at once: those of the current Menu.show() and those an
\* earlier, aborted one left running.
MaxTasks == 4
\* Most show()s waiting at once for a nested Menu.execute() in one process.
MaxNesting == 1
\* Most fields joined into a string handed to str2item_texts.
MaxTokens == 6

----------------------------------------------------------------------------
(* Program constants *)

QUIT_EXIT_CODE == 250
ROFI_RESTART == 10
ROFI_QUIT == 11
ROFI_BACK == 1

\* The exit code of a process that is still running.
Running == <<>>

----------------------------------------------------------------------------
(* Strings *)

Max(S) == CHOOSE x \in S : \A y \in S : y <= x

Whitespace == {" ", "\n", "\t"}

RECURSIVE rstrip(_)
rstrip(s) ==
    IF s = <<>> THEN <<>>
    ELSE IF s[Len(s)] \in Whitespace THEN rstrip(SubSeq(s, 1, Len(s) - 1))
    ELSE s

RECURSIVE lstrip(_)
lstrip(s) ==
    IF s = <<>> THEN <<>>
    ELSE IF Head(s) \in Whitespace THEN lstrip(Tail(s))
    ELSE s

strip(s) == lstrip(rstrip(s))

\* str.replace(key, value): left to right, non-overlapping.
RECURSIVE replace(_, _, _)
replace(s, key, value) ==
    IF Len(s) < Len(key) THEN s
    ELSE IF SubSeq(s, 1, Len(key)) = key
         THEN value \o replace(SubSeq(s, Len(key) + 1, Len(s)), key, value)
         ELSE <<Head(s)>> \o replace(Tail(s), key, value)

\* str.splitlines() for "\n" line ends: no empty last line after a final "\n".
RECURSIVE splitlines(_)
splitlines(s) ==
    IF s = <<>> THEN <<>>
    ELSE LET nl == {i \in 1..Len(s) : s[i] = "\n"} IN
         IF nl = {} THEN <<s>>
         ELSE LET i == CHOOSE k \in nl : \A j \in nl : k <= j IN
              <<SubSeq(s, 1, i - 1)>> \o splitlines(SubSeq(s, i + 1, Len(s)))

RECURSIVE spaces(_)
spaces(n) == IF n <= 0 THEN <<>> ELSE <<" ">> \o spaces(n - 1)

\* f"{s:<{n}}" and f"{s:>{n}}"
ljust(s, n) == s \o spaces(n - Len(s))
rjust(s, n) == spaces(n - Len(s)) \o s

----------------------------------------------------------------------------
(* Items: item/base.py *)

\* ItemTextType: name -> value.
ItemTextType(name) ==
    CASE name = "menu"         -> <<"<", "m", "e", "n", "u", ">">>
      [] name = "action"       -> <<"<", "a", "c", "t", "i", "o", "n", ">">>
      [] name = "notification" -> <<"<", "n", "o", "t", "i", "f", "i", "c", "a",
                                     "t", "i", "o", "n", ">">>
      [] name = "raw"          -> <<>>

\* The children every Menu of the model declares, after set_text(): the
\* variant (item_type), the raw value, and the resolved ItemTexts.
\*   x  an action of an external program       n  a notification
\*   m  a nested Menu                          r  a raw line ending in a blank
\*   i  an item whose resolved text is empty
Children ==
    << [item_type |-> "ItemExternal", raw_value |-> "x", type |-> "action",
        category |-> <<"c">>, subcategory |-> <<>>, status |-> <<>>,
        text |-> <<"x">>],
       [item_type |-> "ItemExternal", raw_value |-> "n", type |-> "notification",
        category |-> <<>>, subcategory |-> <<>>, status |-> <<>>,
        text |-> <<"n">>],
       [item_type |-> "ItemExternal", raw_value |-> "i", type |-> "action",
        category |-> <<>>, subcategory |-> <<>>, status |-> <<>>,
        text |-> <<>>],
       [item_type |-> "ItemExternal", raw_value |-> "r", type |-> "raw",
        category |-> <<>>, subcategory |-> <<>>, status |-> <<>>,
        text |-> <<"r", " ">>],
       [item_type |-> "MenuChoices", raw_value |-> "m", type |-> "menu",
        category |-> <<>>, subcategory |-> <<>>, status |-> <<>>,
        text |-> <<"m">>] >>

\* BaseItem.identifier, f"{item_type}:{raw_value}"; NoId is the empty string.
identifier(item) == <<item.item_type, item.raw_value>>
NoId == <<>>

\* No item: the None of Interface.get_selected_item. An item of the list handed
\* to the interface is named by its row, from 1.
None == 0

\* An item that is visible whatever its text (used to test VisibleSubsequence).
VisibleAlways(item) == TRUE

\* BaseItem.visible: bool(self.texts.text)
visible(item) == item.text # <<>>

IsMenu(item) == item.item_type = "MenuChoices"

\* Menu.show(): items=[item for item in items_instances if item.visible].
\* A Menu at the deepest level of the model declares no nested Menu.
VisibleItems(depth) ==
    LET declared == IF depth < MaxDepth THEN Children
                    ELSE SelectSeq(Children, LAMBDA c : ~IsMenu(c))
    IN  SelectSeq(declared, visible)

----------------------------------------------------------------------------
(* BaseItem.str2item_texts: item/base.py *)

\* str.split(sep): left to right, non-overlapping, empty tokens kept.
RECURSIVE split(_, _)
split(s, sep) ==
    LET at == {i \in 1..(Len(s) - Len(sep) + 1) :
                  SubSeq(s, i, i + Len(sep) - 1) = sep}
    IN  IF at = {} THEN <<s>>
        ELSE LET i == CHOOSE k \in at : \A j \in at : k <= j IN
             <<SubSeq(s, 1, i - 1)>> \o split(SubSeq(s, i + Len(sep), Len(s)), sep)

\* sep.join(toks)
RECURSIVE join(_, _)
join(sep, toks) ==
    IF toks = <<>> THEN <<>>
    ELSE IF Len(toks) = 1 THEN toks[1]
    ELSE toks[1] \o sep \o join(sep, Tail(toks))

\* {i.name for i in ItemTextType}, as the characters of each name.
NameChars(name) ==
    CASE name = "menu"         -> <<"m", "e", "n", "u">>
      [] name = "action"       -> <<"a", "c", "t", "i", "o", "n">>
      [] name = "notification" -> <<"n", "o", "t", "i", "f", "i", "c", "a", "t",
                                     "i", "o", "n">>
      [] name = "raw"          -> <<"r", "a", "w">>
ItemTextTypeNames == {"menu", "action", "notification", "raw"}

\* ItemTextType[chars]: the member of that name; KeyError when there is none.
ItemTextTypeOf(chars) ==
    IF \E n \in ItemTextTypeNames : NameChars(n) = chars
    THEN CHOOSE n \in ItemTextTypeNames : NameChars(n) = chars
    ELSE "KeyError"

\* ItemTexts(): the defaults of the dataclass.
DefaultItemTexts ==
    [type |-> "raw", category |-> <<>>, subcategory |-> <<>>, status |-> <<>>,
     text |-> <<>>]

\* A decoding that takes any first token (used to test DecodeFallsBack).
DecodableAnyType(toks) == Len(toks) > 4

\* A decoding that wants a sixth token (used to test DecodeRecoversFields).
DecodableWithRest(toks) ==
    Len(toks) > 5 /\ ItemTextTypeOf(strip(toks[1])) \in ItemTextTypeNames

\* `len(tokens) > 4 and tokens[0].strip() in {i.name for i in ItemTextType}`
Decodable(toks) ==
    Len(toks) > 4 /\ ItemTextTypeOf(strip(toks[1])) \in ItemTextTypeNames

\* BaseItem.str2item_texts: the ItemTexts and the remaining value.
str2item_texts(s, sep) ==
    LET toks == split(s, sep) IN
    IF Decodable(toks)
    THEN LET item_type == ItemTextTypeOf(strip(toks[1])) IN
         [texts |-> [type |-> item_type,
                     category |-> strip(toks[2]),
                     subcategory |-> strip(toks[3]),
                     status |-> strip(toks[4]),
                     text |-> IF item_type # "raw" THEN strip(toks[5])
                              ELSE toks[5]],
          rest |-> join(sep, SubSeq(toks, 6, Len(toks)))]
    ELSE [texts |-> DefaultItemTexts, rest |-> s]

\* The delimiters: the first of constants.TOKEN_SEPARATORS, and a
\* one-character one.
Delimiters == {<<":", ":">>, <<",">>}

\* What a first field can be: a type name, bare or padded, or something else.
FirstFields ==
    {NameChars(n) : n \in ItemTextTypeNames}
    \cup {<<" ">> \o NameChars("menu") \o <<" ">>, <<"x">>, <<>>}

\* What a later field can be: empty, plain, padded with blanks, or made of
\* a character of the delimiter.
Fields == {<<>>, <<"a">>, <<" ", "a">>, <<"b", " ">>, <<":">>}

RECURSIVE FieldSeqs(_)
FieldSeqs(n) ==
    IF n = 0 THEN {<<>>}
    ELSE LET shorter == FieldSeqs(n - 1) IN
         shorter \cup {Append(q, f) : q \in {x \in shorter : Len(x) = n - 1},
                                      f \in Fields}

NotDecoded == <<>>

\* A caller of str2item_texts: the decoding of a joined string.
Decode ==
    /\ decoded = NotDecoded
    /\ decoded' = str2item_texts(encoded, token_separator)
    /\ UNCHANGED <<tokens, token_separator, encoded, unpacked, navVars,
                   cacheVars, runVars, inlineVars, configVars, helperVars, unitVars>>

\* The variants that unpack their value into a fixed number of names, and
\* where they do it: in __init__, which Menu.show() calls while it builds
\* items_instances, or in set_text(), which runs inside the gather().
FieldCountVariants ==
    {"ItemZerotierNetwork", "MenuAudioDeviceNode", "ItemAudioDeviceChange"}
RequiredFields(variant) == IF variant = "ItemAudioDeviceChange" THEN 3 ELSE 2
UnpackedIn(variant) == IF variant = "ItemZerotierNetwork" THEN "__init__" ELSE "set_text"

\* `a, b = value.split(delimiter)`: Python raises ValueError when the number
\* of values differs from the number of names.
UnpackError(count, required) ==
    IF count = required THEN "none" ELSE "ValueError"

\* Menu.show(): `except DecodeStringError` around the gather().
ShowCatches(error) == error = "DecodeStringError"

\* Menu.show() for a child that raised error at the given place: the result
\* ("", "") when the handler applies, else the exception leaves show().
ShowOutcome(place, error) ==
    IF error = "none" THEN "run"
    ELSE IF place = "set_text" /\ ShowCatches(error) THEN "aborted"
    ELSE "crashed"

\* A child of a fixed-field variant is built from the string and its text is
\* resolved: ItemZerotierNetwork splits kwargs["value"], the audio variants
\* split self.value, which BaseItem.__init__ took from str2item_texts.
Unpack ==
    /\ decoded # NotDecoded /\ unpacked = NotDecoded
    /\ \E variant \in FieldCountVariants :
        LET value == IF variant = "ItemZerotierNetwork" THEN encoded
                     ELSE decoded.rest
            count == Len(split(value, token_separator))
            error == UnpackError(count, RequiredFields(variant))
        IN  unpacked' = [variant |-> variant, count |-> count, error |-> error,
                         show |-> ShowOutcome(UnpackedIn(variant), error)]
    /\ UNCHANGED <<tokens, token_separator, encoded, decoded, navVars,
                   cacheVars, runVars, inlineVars, configVars, helperVars, unitVars>>

DecodeIdle ==
    /\ tokens = <<>> /\ token_separator = <<>> /\ encoded = <<>>
    /\ decoded = NotDecoded /\ unpacked = NotDecoded

----------------------------------------------------------------------------
(* Interface: interface.py *)

\* constants.text_substitutions, the entries the model's texts can hold; a
\* letter stands for each glyph.
text_substitutions ==
    << << ItemTextType("menu"), <<"M">> >>,
       << ItemTextType("action"), <<"A">> >>,
       << ItemTextType("notification"), <<"N">> >> >>

RECURSIVE ApplySubstitutions(_, _)
ApplySubstitutions(text, subs) ==
    IF subs = <<>> THEN text
    ELSE ApplySubstitutions(replace(text, Head(subs)[1], Head(subs)[2]), Tail(subs))

\* Rofi/FzfInterface.text_apply_tokens with RAW unset and no console.
text_apply_tokens(text) == ApplySubstitutions(text, text_substitutions)

\* Interface.formatted_texts
formatted_texts(item) ==
    [type        |-> text_apply_tokens(ItemTextType(item.type)),
     category    |-> text_apply_tokens(strip(item.category)),
     subcategory |-> text_apply_tokens(strip(item.subcategory)),
     status      |-> text_apply_tokens(strip(item.status)),
     text        |-> text_apply_tokens(item.text)]

\* A width taken from the first item (used to test ColumnsAligned).
MaxLenFirst(items, field) ==
    IF items = <<>> THEN 0 ELSE Len(formatted_texts(items[1])[field])

\* Interface.format_items_text: type_len, category_len, ... over non_raw_items.
MaxLen(items, field) ==
    Max({0} \cup {Len(formatted_texts(items[i])[field]) : i \in 1..Len(items)})

\* A raw line with the icon tokens substituted (used to test RawLiteral).
RawLineFormatted(item) == text_apply_tokens(item.text)

\* Interface.format_items_text: `item.texts.menu = item.texts.text` for a raw
\* item.
RawLine(item) == item.text

\* Interface.format_items_text: texts.menu of items[k].
MenuLine(items, k) ==
    LET non_raw == SelectSeq(items, LAMBDA i : i.type # "raw")
        f == formatted_texts(items[k])
        type_len == MaxLen(non_raw, "type")
        category_len == MaxLen(non_raw, "category")
        subcategory_len == MaxLen(non_raw, "subcategory")
        status_len == MaxLen(non_raw, "status")
        text_len == MaxLen(non_raw, "text")
    IN  IF items[k].type = "raw" THEN RawLine(items[k])
        ELSE <<" ">> \o ljust(f.type, type_len)
             \o (IF category_len > 0
                 THEN <<" ">> \o rjust(f.category, category_len) ELSE <<>>)
             \o (IF subcategory_len > 0
                 THEN (IF f.subcategory # <<>>
                       THEN <<"/">> \o ljust(f.subcategory, subcategory_len)
                       ELSE spaces(subcategory_len + 1))
                 ELSE <<>>)
             \o (IF status_len > 0
                 THEN <<" ", " ">> \o rjust(f.status, status_len) ELSE <<>>)
             \o (IF text_len > 0 THEN <<" ", " ">> \o f.text ELSE <<>>)

\* Interface.get_selected_item: the first item whose line equals the text.
get_selected_item(items, selected_text) ==
    LET hits == {k \in 1..Len(items) : MenuLine(items, k) = selected_text}
    IN  IF hits = {} THEN None
        ELSE CHOOSE k \in hits : \A j \in hits : k <= j

\* A run() that takes the last match (used to test HintRow).
SelectedRowLast(items, last_item_id) ==
    LET hits == {k \in 1..Len(items) : identifier(items[k]) = last_item_id}
    IN  IF hits = {} THEN 0
        ELSE (CHOOSE k \in hits : \A j \in hits : k >= j) - 1

\* Interface.run: the row handed to the picker as the one to highlight,
\* counted from 0 as enumerate() does.
SelectedRow(items, last_item_id) ==
    LET hits == {k \in 1..Len(items) : identifier(items[k]) = last_item_id}
    IN  IF hits = {} THEN 0
        ELSE (CHOOSE k \in hits : \A j \in hits : k <= j) - 1

\* What run_menu ends with: a returned pair, sys.exit, or an exception.
Return(action, item) == [kind |-> "return", action |-> action, item |-> item]
SysExit(code) == [kind |-> "exit", action |-> "", item |-> None, code |-> code]
Raise(name) == [kind |-> "raise", action |-> "", item |-> None, name |-> name]

\* RofiInterface.run_menu after communicate(), no timeout.
RofiRunMenu(items, returncode, stdout) ==
    LET selected_text == rstrip(stdout)
        selected_item == IF selected_text # <<>>
                         THEN get_selected_item(items, selected_text) ELSE None
        bound == returncode \in {ROFI_RESTART, ROFI_BACK} \/ selected_text # <<>>
        next_action == IF returncode = ROFI_RESTART THEN "restart"
                       ELSE IF returncode = ROFI_BACK THEN "back"
                       ELSE "selected"
    IN  IF returncode = ROFI_QUIT THEN SysExit(QUIT_EXIT_CODE)
        ELSE IF selected_text # <<>> /\ selected_item = None
             THEN Return("restart", selected_item)
        ELSE IF ~bound THEN Raise("UnboundLocalError")
        ELSE Return(next_action, selected_item)

KeyCtrlR == <<"c", "t", "r", "l", "-", "r">>
KeyCtrlQ == <<"c", "t", "r", "l", "-", "q">>
KeyF5    == <<"f", "5">>
KeyEsc   == <<"e", "s", "c">>
KeyEnter == <<"e", "n", "t", "e", "r">>

\* FzfInterface.run_menu after communicate(), no timeout.
FzfRunMenu(items, stdout) ==
    LET lines == splitlines(stdout)
        has_key == lines # <<>>
        key == IF has_key THEN rstrip(lines[1]) ELSE <<>>
        has_text == Len(lines) = 2
        selected_text == IF has_text THEN rstrip(lines[2]) ELSE <<>>
        selected_item == IF has_text
                         THEN get_selected_item(items, selected_text) ELSE None
    IN  IF has_key /\ key \in {KeyCtrlR, KeyF5} THEN Return("restart", selected_item)
        ELSE IF has_key /\ key = KeyCtrlQ THEN SysExit(QUIT_EXIT_CODE)
        ELSE IF has_key /\ key = KeyEsc THEN Return("back", selected_item)
        ELSE IF has_text /\ selected_text # <<>> THEN Return("selected", selected_item)
        ELSE IF ~has_text THEN Return("restart", selected_item)
        ELSE Return("back", selected_item)

----------------------------------------------------------------------------
(* Menu: item/menu.py, and the processes around it *)

NoExc == [type |-> "none", code |-> 0]
SystemExit(code) == [type |-> "SystemExit", code |-> code]
Exception(name) == [type |-> name, code |-> 0]

\* loop_timeout: 0.0, or some positive number of seconds.
LoopTimeouts == {0, 1}

\* Menu.__init__ and the start of Menu.execute(): a new activation. root says
\* the Menu is the one main_async builds, the outermost of its process.
NewFrame(root, keep_opened, loop_timeout) ==
    [root |-> root, keep_opened |-> keep_opened, loop_timeout |-> loop_timeout,
     phase |-> IF loop_timeout # 0 THEN "loop" ELSE "normal",
     pc |-> "call_show", selection |-> NoId, last_item_id |-> NoId,
     proc |-> "none", tmo |-> FALSE,
     iaction |-> "", item |-> None, action |-> "", returncode |-> Running]

\* The loop_timeout argument Menu.execute() passes to show().
ShowTimeout(f) == IF f.phase = "loop" THEN f.loop_timeout ELSE 0

\* A show() without the loop-mode guard (used to test LoopGuard).
ShowActionAsReported(timeout, action) == action

\* Menu.show(): `if action == "selected" and loop_timeout: action = "back"`.
ShowAction(timeout, action) ==
    IF action = "selected" /\ timeout # 0 THEN "back" ELSE action

\* A show() that executes whatever was selected (used to test
\* NotificationNeverExecuted).
ShowExecutesAnyType(action, type) == action = "selected"

\* A show() that executes whatever item the interface returned (used to test
\* ExecutesSelectedOnce).
ShowExecutesReturned(action, type) == TRUE

\* Menu.show(): whether execute() is called on the selected item.
ShowExecutes(action, type) == action = "selected" /\ type # "notification"

\* A normal loop that only run-once ends (used to test BackLeavesNormalLoop).
NormalBreaksOnRunOnce(keep_opened, action) == ~keep_opened

\* A normal loop that run-once does not end (used to test NormalLoop).
NormalBreaksOnBack(keep_opened, action) == action \in {"back", ""}

\* A timed loop that only an aborted show() ends (used to test
\* SelectionEndsTimedPhase).
LoopBreaksOnEmpty(action) == action = ""

\* Menu.execute(): the break of the timed loop, and of the normal loop.
LoopBreaks(action) == action \in {"back", ""}
NormalBreaks(keep_opened, action) == ~keep_opened \/ action \in {"back", ""}

\* An execute() that ignores the return code (used to test
\* ExternalQuitPropagates).
ExternalNeverQuits(returncode) == FALSE

\* ItemExternal.execute() after proc.wait(): whether it calls sys.exit.
ExternalQuits(returncode) == returncode = QUIT_EXIT_CODE

\* A main_async without its `except SystemExit` (used to test QuitExitsProcess).
MainExitCodeGeneric(e) == 1

\* A main_async that exits with the code the exception carries (used to test
\* FailureExitCode).
MainExitCodeCarried(e) == e.code

\* main_async: the exit code for an exception that reaches it.
MainExitCode(e) == IF e.type = "SystemExit" THEN e.code ELSE 1

\* proc.terminate() in the timeout handler: ProcessLookupError when the process
\* has exited and asyncio has closed its transport; only `await proc.wait()`
\* is inside the try that tolerates it.
TerminateRaises(state) == state = "closed"

Top == stack[Len(stack)]
Depth == Len(stack)
SetTop(f) == [stack EXCEPT ![Len(stack)] = f]
Pop == SubSeq(stack, 1, Len(stack) - 1)

NL == <<"\n">>
Lines(items) == {MenuLine(items, k) : k \in 1..Len(items)}

\* What the pickers can write and exit with.
RofiReturnCodes == {0, ROFI_BACK, ROFI_RESTART, ROFI_QUIT}
RofiOutputs(items) ==
    {<<>>} \cup {l \o NL : l \in Lines(items)} \cup {<<"z">> \o NL}
FzfKeys == {KeyEnter, KeyEsc, KeyCtrlR, KeyF5, KeyCtrlQ}
FzfOutputs(items) ==
    {<<>>} \cup {k \o NL : k \in FzfKeys}
    \cup {k \o NL \o l \o NL : k \in FzfKeys, l \in Lines(items) \cup {<<>>}}

\* Every outcome run_menu can end with when communicate() returns, by adapter
\* and by whether the Menu is at the deepest level of the model.
RunMenuOutcomes ==
    [i \in {"rofi", "fzf"}, depth \in 1..MaxDepth |->
        LET items == VisibleItems(depth) IN
        IF i = "rofi"
        THEN {RofiRunMenu(items, rc, out) :
                 rc \in RofiReturnCodes, out \in RofiOutputs(items)}
        ELSE {FzfRunMenu(items, out) : out \in FzfOutputs(items)}]

\* Menu.show() from the return of interface.run() to the call of
\* selected_item.execute() or to its own return: no await in between.
AfterRun(f, items, r) ==
    LET action == ShowAction(ShowTimeout(f), r.action) IN
    IF action = "selected" /\ r.item = None
    THEN [frame |-> [f EXCEPT !.pc = "raise", !.iaction = r.action,
                              !.item = r.item, !.action = action],
          exc |-> Exception("AttributeError")]
    ELSE [frame |-> [f EXCEPT !.pc = IF r.item # None
                                        /\ ShowExecutes(action, items[r.item].type)
                                     THEN "exec" ELSE "show_ret",
                              !.iaction = r.action, !.item = r.item,
                              !.action = action],
          exc |-> NoExc]

\* Menu.execute() calls show(selection, ...), and Menu.show() runs up to the
\* spawn of the picker: the texts are resolved and the Interface is built
\* with last_item_id. execute() assigns selection anew when show() returns.
ShowStart ==
    /\ exc = NoExc /\ stack # <<>> /\ Top.pc = "call_show"
    /\ stack' = SetTop([Top EXCEPT !.pc = "picker", !.proc = "running",
                                   !.last_item_id = Top.selection,
                                   !.selection = NoId])
    /\ UNCHANGED <<exc, exitCode, interface, cacheVars, decodeVars, runVars, inlineVars, configVars, helperVars, unitVars>>

\* Menu.show(): a text resolution raised DecodeStringError: return "", "".
ShowDecodeAbort ==
    /\ exc = NoExc /\ stack # <<>> /\ Top.pc = "call_show"
    /\ stack' = SetTop([Top EXCEPT !.pc = "show_ret", !.selection = NoId])
    /\ UNCHANGED <<exc, exitCode, interface, cacheVars, decodeVars, runVars, inlineVars, configVars, helperVars, unitVars>>

\* run_menu: the outcome r, then Menu.show() up to execute() or its return. A
\* selected Menu starts its execute() at once: a new activation.
Finish(r) ==
    LET items == VisibleItems(Depth)
        f == [Top EXCEPT !.proc = "exited", !.last_item_id = NoId]
    IN
    /\ exitCode' = exitCode /\ interface' = interface
    /\ IF r.kind = "exit"
       THEN /\ stack' = SetTop([f EXCEPT !.pc = "raise"])
            /\ exc' = SystemExit(r.code)
       ELSE IF r.kind = "raise"
       THEN /\ stack' = SetTop([f EXCEPT !.pc = "raise"])
            /\ exc' = Exception(r.name)
       ELSE LET a == AfterRun(f, items, r) IN
            /\ exc' = a.exc
            /\ IF a.frame.pc = "exec" /\ IsMenu(items[r.item])
               THEN \E ko \in BOOLEAN, lt \in LoopTimeouts :
                        stack' = Append(SetTop(a.frame), NewFrame(FALSE, ko, lt))
               ELSE stack' = SetTop(a.frame)

\* The picker exits and communicate() returns.
PickerDone ==
    /\ exc = NoExc /\ stack # <<>> /\ Top.pc = "picker"
    /\ \E r \in RunMenuOutcomes[interface, Depth] : Finish(r)
    /\ UNCHANGED <<cacheVars, decodeVars, runVars, inlineVars, configVars, helperVars, unitVars>>

\* asyncio.wait_for raises TimeoutError: proc.terminate(). The picker is alive,
\* or has exited with its transport still open, or with its transport closed.
PickerTimeout ==
    /\ exc = NoExc /\ stack # <<>> /\ Top.pc = "picker"
    /\ ShowTimeout(Top) # 0
    /\ \E state \in {"alive", "exited", "closed"} :
        /\ stack' = SetTop([Top EXCEPT
                !.tmo = TRUE,
                !.proc = IF state = "alive" THEN "running" ELSE "exited",
                !.pc = IF TerminateRaises(state) THEN "raise" ELSE "wait"])
        /\ exc' = IF TerminateRaises(state)
                  THEN Exception("ProcessLookupError") ELSE NoExc
    /\ UNCHANGED <<exitCode, interface, cacheVars, decodeVars, runVars, inlineVars, configVars, helperVars, unitVars>>

\* `await proc.wait()` returns; run_menu returns "restart", None.
PickerWait ==
    /\ exc = NoExc /\ stack # <<>> /\ Top.pc = "wait"
    /\ Finish(Return("restart", None))
    /\ UNCHANGED <<cacheVars, decodeVars, runVars, inlineVars, configVars, helperVars, unitVars>>

\* A process ends with this code: the ItemExternal.execute() that waits for it
\* goes on in the parent process, or the outermost process has exited.
ProcessExit(rest, code) ==
    IF rest = <<>>
    THEN /\ stack' = rest /\ exc' = NoExc /\ exitCode' = <<code>>
    ELSE /\ exitCode' = exitCode
         /\ IF ExternalQuits(code)
            THEN /\ exc' = SystemExit(QUIT_EXIT_CODE)
                 /\ stack' = [rest EXCEPT ![Len(rest)].pc = "raise",
                                          ![Len(rest)].returncode = <<code>>]
            ELSE /\ exc' = NoExc
                 /\ stack' = [rest EXCEPT ![Len(rest)].pc = "show_ret",
                                          ![Len(rest)].returncode = <<code>>]

\* ItemExternal.execute(): the external program exits with some code.
ExternalExit ==
    /\ exc = NoExc /\ stack # <<>> /\ Top.pc = "exec"
    /\ \E code \in {0, 1, QUIT_EXIT_CODE} :
        IF ExternalQuits(code)
        THEN /\ exc' = SystemExit(QUIT_EXIT_CODE)
             /\ stack' = SetTop([Top EXCEPT !.pc = "raise", !.returncode = <<code>>])
        ELSE /\ exc' = NoExc
             /\ stack' = SetTop([Top EXCEPT !.pc = "show_ret",
                                            !.returncode = <<code>>])
    /\ UNCHANGED <<exitCode, interface, cacheVars, decodeVars, runVars, inlineVars, configVars, helperVars, unitVars>>

\* ItemExternal.execute(): the external program is simple-menu itself, run as
\* `menu`: main_async builds its root Menu and calls execute().
ExternalMenu ==
    /\ exc = NoExc /\ stack # <<>> /\ Top.pc = "exec"
    /\ Depth < MaxDepth
    /\ \E ko \in BOOLEAN, lt \in LoopTimeouts :
        stack' = Append(stack, NewFrame(TRUE, ko, lt))
    /\ UNCHANGED <<exc, exitCode, interface, cacheVars, decodeVars, runVars, inlineVars, configVars, helperVars, unitVars>>

\* A show() that names the item only when it was selected (used to test
\* ShowReturnsIdentifier).
ShowResultOfSelection(f, items) ==
    [action |-> f.action,
     selection |-> IF f.item # None /\ f.action = "selected"
                   THEN identifier(items[f.item]) ELSE NoId]

\* A show() that never names the item (used to test NestedBackLeavesOneLevel).
ShowResultWithoutId(f, items) == [action |-> f.action, selection |-> NoId]

\* Menu.show(): `return action, selected_item.identifier`, or `action, ""`.
ShowResult(f, items) ==
    [action |-> f.action,
     selection |-> IF f.item # None THEN identifier(items[f.item]) ELSE NoId]

\* Menu.execute() after show() returned: show again, or return. The caller
\* of a returning execute() is the show() of the parent Menu, or main_async.
ShowReturn ==
    /\ exc = NoExc /\ stack # <<>> /\ Top.pc = "show_ret"
    /\ UNCHANGED <<interface, cacheVars, decodeVars, runVars, inlineVars, configVars, helperVars, unitVars>>
    /\ LET result == ShowResult(Top, VisibleItems(Depth))
           f == [Top EXCEPT !.action = result.action,
                            !.selection = result.selection]
           again == [f EXCEPT !.pc = "call_show", !.proc = "none", !.tmo = FALSE,
                              !.iaction = "", !.item = None, !.action = "",
                              !.returncode = Running]
       IN  IF f.phase = "loop"
           THEN /\ stack' = SetTop([again EXCEPT
                        !.phase = IF LoopBreaks(f.action) THEN "normal" ELSE "loop"])
                /\ UNCHANGED <<exc, exitCode>>
           ELSE IF ~NormalBreaks(f.keep_opened, f.action)
           THEN /\ stack' = SetTop(again)
                /\ UNCHANGED <<exc, exitCode>>
           ELSE IF f.root
           THEN ProcessExit(Pop, 0)
           ELSE /\ stack' = [Pop EXCEPT ![Len(Pop)].pc = "show_ret"]
                /\ UNCHANGED <<exc, exitCode>>

\* An exception leaves Menu.show() and Menu.execute(): nothing catches it
\* before main_async, which exits the process.
Unwind ==
    /\ exc # NoExc /\ stack # <<>>
    /\ UNCHANGED <<interface, cacheVars, decodeVars, runVars, inlineVars, configVars, helperVars, unitVars>>
    /\ IF Top.root
       THEN ProcessExit(Pop, MainExitCode(exc))
       ELSE /\ stack' = [Pop EXCEPT ![Len(Pop)].pc = "raise"]
            /\ UNCHANGED <<exc, exitCode>>

----------------------------------------------------------------------------
(* MenuInline: item/menu_inline.py *)

MaxPieces == 4

\* constants.TOKEN_SEPARATORS, and lists a configuration file or
\* --token-separators can give: one level only, two levels, one-character
\* separators, and a list in which two separators share a character.
TOKEN_SEPARATORS == << <<":", ":">>, <<",", ",">>, <<";", ";">> >>
SeparatorLists ==
    { TOKEN_SEPARATORS,
      << <<":", ":">>, <<",", ",">> >>,
      << <<":", ":">> >>,
      << <<":">>, <<",">>, <<";">> >>,
      << <<":">>, <<",">>, <<":", ";">> >> }

\* get_item_class: the names it knows (a letter stands for one), else
\* sys.exit(1).
ItemNames == {<<"a">>}

\* What a value is written with: a name, single characters and the default
\* separators.
Pieces == {<<"a">>, <<"b">>, <<",">>, <<";">>} \cup
          {TOKEN_SEPARATORS[k] : k \in 1..Len(TOKEN_SEPARATORS)}

RECURSIVE Concats(_)
Concats(n) ==
    IF n = 0 THEN {<<>>}
    ELSE LET shorter == Concats(n - 1) IN
         shorter \cup {v \o p : v \in shorter, p \in Pieces}

\* A loop that goes from the last level down (used to test LevelShift).
RECURSIVE ReduceDown(_, _, _)
ReduceDown(inner_value, token_separators, level) ==
    IF level < 1 THEN inner_value
    ELSE ReduceDown(replace(inner_value, token_separators[level + 1],
                            token_separators[level]),
                    token_separators, level - 1)
ReduceLevelsDescending(inner_value, token_separators) ==
    ReduceDown(inner_value, token_separators, Len(token_separators) - 1)

\* get_item_type_value: `for level in range(len(token_separators) - 1):
\* inner_value = inner_value.replace(separators[level + 1], separators[level])`;
\* the levels count from 1 here.
RECURSIVE ReduceFrom(_, _, _)
ReduceFrom(inner_value, token_separators, level) ==
    IF level > Len(token_separators) - 1 THEN inner_value
    ELSE ReduceFrom(replace(inner_value, token_separators[level + 1],
                            token_separators[level]),
                    token_separators, level + 1)
ReduceLevels(inner_value, token_separators) ==
    ReduceFrom(inner_value, token_separators, 1)

\* get_item_type_value: the item class and the value of one child, or the
\* exception it ends with.
get_item_type_value(value, token_separators) ==
    IF Len(token_separators) < 2
    THEN [error |-> "IndexError", item_type |-> <<>>, value |-> <<>>]
    ELSE LET toks == split(value, token_separators[2]) IN
         IF strip(toks[1]) \notin ItemNames
         THEN [error |-> "SystemExit", item_type |-> <<>>, value |-> <<>>]
         ELSE [error |-> "none", item_type |-> strip(toks[1]),
               value |-> ReduceLevels(join(token_separators[2], Tail(toks)),
                                      token_separators)]

\* MenuInline.set_items: self.items, or the first exception raised.
RECURSIVE SetItemsFrom(_, _)
SetItemsFrom(items_text, token_separators) ==
    IF items_text = <<>> THEN [error |-> "none", items |-> <<>>]
    ELSE LET r == get_item_type_value(Head(items_text), token_separators) IN
         IF r.error # "none" THEN [error |-> r.error, items |-> <<>>]
         ELSE LET rest == SetItemsFrom(Tail(items_text), token_separators) IN
              IF rest.error # "none" THEN rest
              ELSE [error |-> "none",
                    items |-> <<[item_type |-> r.item_type, value |-> r.value]>>
                              \o rest.items]

NotSet == <<>>

\* MenuInline.set_items: `items_text = self.value.split(self.delimiter)`.
SetItems ==
    /\ inline_items = NotSet
    /\ inline_items' = SetItemsFrom(split(inline_value, separators[1]), separators)
    /\ UNCHANGED <<separators, inline_value, navVars, cacheVars, decodeVars,
                   runVars, configVars, helperVars, unitVars>>

InlineIdle ==
    /\ separators = <<>> /\ inline_value = <<>> /\ inline_items = NotSet

----------------------------------------------------------------------------
(* get_configuration: configuration.py; the adapter: item/menu.py *)

\* constants.interface_choices: what argparse accepts for --interface.
interface_choices == {"auto", "fzf", "rofi"}

\* An option or key that is not given.
Unset == "<unset>"

\* Values an environment variable or a key of the file can hold: the
\* choices, another picker's name, the empty string.
ConfiguredValues == interface_choices \cup {"dmenu", ""}

\* The environments of the model: INTERFACE with a value or unset, and
\* WAYLAND_DISPLAY and DISPLAY set or unset.
Environments ==
    [INTERFACE : ConfiguredValues \cup {Unset},
     WAYLAND_DISPLAY : {"wayland-0", Unset},
     DISPLAY : {":0", Unset}]

\* get_configuration: the interface, from the command line, the INTERFACE
\* variable, the file, or auto; auto is resolved from the display variables.
get_configuration(requested, env, file) ==
    LET chosen ==
            IF requested # Unset THEN requested
            ELSE IF env.INTERFACE # Unset THEN env.INTERFACE
            ELSE IF file.interface # Unset THEN file.interface
            ELSE "auto"
    IN  IF chosen = "auto"
        THEN (IF env.WAYLAND_DISPLAY # Unset \/ env.DISPLAY # Unset
              THEN "rofi" ELSE "fzf")
        ELSE chosen

\* Menu.show(): `match self.configuration.interface`, with a case for rofi and
\* one for fzf; interface_class is read unassigned when neither matches.
InterfaceClass(name) ==
    CASE name = "rofi" -> "RofiInterface"
      [] name = "fzf"  -> "FzfInterface"
      [] OTHER         -> "UnboundLocalError"

NotConfigured == "<none>"

\* main_async calls get_configuration.
GetConfiguration ==
    /\ configuration_interface = NotConfigured
    /\ configuration_interface' = get_configuration(requested_interface, environ, data)
    /\ UNCHANGED <<requested_interface, environ, data, interface_class,
                   navVars, cacheVars, decodeVars, runVars, inlineVars,
                   helperVars, unitVars>>

\* Menu.show() chooses the adapter.
ChooseInterface ==
    /\ configuration_interface # NotConfigured /\ interface_class = NotConfigured
    /\ interface_class' = InterfaceClass(configuration_interface)
    /\ UNCHANGED <<requested_interface, environ, data, configuration_interface,
                   navVars, cacheVars, decodeVars, runVars, inlineVars,
                   helperVars, unitVars>>

ConfigIdle ==
    /\ requested_interface = Unset /\ environ = <<>> /\ data = <<>>
    /\ configuration_interface = NotConfigured /\ interface_class = NotConfigured

----------------------------------------------------------------------------
(* The privileged helper: sudo_helper.py, main.py *)

\* The attributes of the Namespace parse_args returns for `helper`: one per
\* option, named after the option.
ArgsAttributes ==
    {"verbose", "config_file", "interface", "token_separator", "command",
     "systemd_unit_toggle", "zerotier_network_get", "zerotier_network_toggle"}

\* The names a unit or a network can have in the model.
Names == {"a", "b"}

\* What the helper can be asked: one of its three options with a name, or
\* none of them.
HelperRequests ==
    {[option |-> o, name |-> n] :
        o \in {"systemd_unit_toggle", "zerotier_network_get",
               "zerotier_network_toggle"}, n \in Names}
    \cup {[option |-> "none", name |-> ""]}

\* The host: whether /etc/simple-menu/simple-menu.toml exists, the two
\* allow-lists it holds, whether the unit asked about is active, whether
\* zerotier-cli lists the network.
HelperHosts ==
    [config_exists : BOOLEAN,
     helper_systemd_toggle_allowed : SUBSET Names,
     helper_zerotier_allowed : SUBSET Names,
     active : BOOLEAN, listed : BOOLEAN]

\* What a run of the helper ends with: the commands that change something,
\* the lines printed (a traceback included), the exit code.
Ended(commands, printed, code) ==
    [commands |-> commands, printed |-> printed, code |-> code]

\* Helper.systemd_unit_toggle
systemd_unit_toggle(unit_name, host) ==
    IF unit_name \in host.helper_systemd_toggle_allowed
    THEN Ended(<< <<"systemctl", IF host.active THEN "stop" ELSE "start",
                    unit_name>> >>, <<>>, 0)
    ELSE Ended(<<>>, <<"Error: daemon is not allowed to be toggled.">>, 1)

\* Helper.zerotier_network_get_status_or_exit
zerotier_network_get_status_or_exit(zerotier_network, host) ==
    IF zerotier_network \notin host.helper_zerotier_allowed
    THEN Ended(<<>>, <<>>, 0)
    ELSE Ended(<<>>,
               <<IF ~host.active THEN "zerotier-one is not running"
                 ELSE IF host.listed THEN "started" ELSE "stopped">>, 0)

\* Helper.zerotier_network_toggle_or_exit
zerotier_network_toggle_or_exit(zerotier_network, host) ==
    IF zerotier_network \notin host.helper_zerotier_allowed
    THEN Ended(<<>>, <<>>, 0)
    ELSE Ended(<< <<"zerotier-cli", IF host.listed THEN "leave" ELSE "join",
                    zerotier_network>> >>, <<>>, 0)

\* Helper.__init__: the configuration file must exist; get_configuration is
\* called with args.token_separators, an attribute read before anything is
\* dispatched (AttributeError when the Namespace has none of that name, which
\* nothing catches: exit code 1); then the option given decides.
Helper(args, host) ==
    IF ~host.config_exists
    THEN Ended(<<>>, <<"Error: configuration file does not exist.">>, 1)
    ELSE IF "token_separators" \notin ArgsAttributes
    THEN Ended(<<>>, <<"Traceback: AttributeError">>, 1)
    ELSE IF args.option = "systemd_unit_toggle"
    THEN systemd_unit_toggle(args.name, host)
    ELSE IF args.option = "zerotier_network_get"
    THEN zerotier_network_get_status_or_exit(args.name, host)
    ELSE IF args.option = "zerotier_network_toggle"
    THEN zerotier_network_toggle_or_exit(args.name, host)
    ELSE Ended(<<>>, <<"Error: no action specified.">>, 1)

NotRun == <<>>

\* main(): `sudo_helper.Helper(args=args, ...)`.
HelperRun ==
    /\ helper_result = NotRun
    /\ helper_result' = Helper(helper_args, helper_host)
    /\ UNCHANGED <<helper_args, helper_host, navVars, cacheVars, decodeVars,
                   runVars, inlineVars, configVars, unitVars>>

HelperIdle ==
    /\ helper_args = <<>> /\ helper_host = <<>> /\ helper_result = NotRun

\* Outside their specifications the four small machines do not exist.
UnitIdle ==
    /\ external = <<>> /\ options = <<>> /\ registry = <<>> /\ pipewire = <<>>

----------------------------------------------------------------------------
(* MenuExternal: item/menu_external.py, item/menu.py *)

\* Most show() calls of one execute() in the model.
MaxShows == 3

\* What value2menu_options returns for the first line of the program's
\* output: the defaults where the line declares nothing.
DeclaredOptions == [keep_opened : BOOLEAN, loop_timeout : {0, 1, 2}]
NotDeclared == <<>>
NotPassed == -1

\* Menu.__init__: title, keep_opened and loop_timeout are read from the value
\* (the command of a MenuExternal); nothing of the program is known yet.
MenuExternalNew(keep_opened, loop_timeout) ==
    [pc |-> "execute", keep_opened |-> keep_opened, loop_timeout |-> loop_timeout,
     phase |-> "none", broke |-> FALSE, declared |-> NotDeclared,
     passed |-> NotPassed, action |-> "", shows |-> 0]

\* Menu.execute(): `selection = ""; if self.loop_timeout:` is decided once,
\* before the first show().
ExternalExecute ==
    /\ external.pc = "execute"
    /\ external' = [external EXCEPT
            !.pc = "call_show",
            !.phase = IF external.loop_timeout # 0 THEN "loop" ELSE "normal"]
    /\ UNCHANGED <<options, registry, pipewire, navVars, cacheVars, decodeVars,
                   runVars, inlineVars, configVars, helperVars>>

\* Menu.show(selection, loop_timeout=...): the argument is evaluated at the
\* call; MenuExternal.set_items() then runs the program and assigns
\* self.title, self.keep_opened and self.loop_timeout from its first line;
\* the interface (or a decode abort) decides the action.
ExternalShow ==
    /\ external.pc = "call_show"
    /\ external.shows < MaxShows
    /\ \E d \in DeclaredOptions, a \in {"selected", "back", "restart", ""} :
        LET timeout == IF external.phase = "loop" THEN external.loop_timeout ELSE 0
        IN  external' = [external EXCEPT
                !.pc = "show_ret",
                !.passed = timeout,
                !.declared = d,
                !.keep_opened = d.keep_opened,
                !.loop_timeout = d.loop_timeout,
                !.action = ShowAction(timeout, a),
                !.shows = @ + 1]
    /\ UNCHANGED <<options, registry, pipewire, navVars, cacheVars, decodeVars,
                   runVars, inlineVars, configVars, helperVars>>

\* Menu.execute() after show() returned: the break of the timed loop leads to
\* the normal loop, the break of the normal loop to the return.
ExternalShowReturn ==
    /\ external.pc = "show_ret"
    /\ external' =
        IF external.phase = "loop"
        THEN IF LoopBreaks(external.action)
             THEN [external EXCEPT !.pc = "call_show", !.phase = "normal",
                                   !.broke = TRUE]
             ELSE [external EXCEPT !.pc = "call_show"]
        ELSE IF NormalBreaks(external.keep_opened, external.action)
             THEN [external EXCEPT !.pc = "returned"]
             ELSE [external EXCEPT !.pc = "call_show"]
    /\ UNCHANGED <<options, registry, pipewire, navVars, cacheVars, decodeVars,
                   runVars, inlineVars, configVars, helperVars>>

----------------------------------------------------------------------------
(* The options of a Menu: main.py, item/menu.py *)

\* The longest title of the model.
MaxTitle == 2

\* What a title is written with: a letter, a blank, and characters the
\* delimiters are made of.
TitleChars == {"a", " ", ":", "."}
RECURSIVE Strings(_)
Strings(n) ==
    IF n = 0 THEN {<<>>}
    ELSE LET shorter == Strings(n - 1) IN
         shorter \cup {Append(t, c) : t \in {x \in shorter : Len(x) = n - 1},
                                      c \in TitleChars}

\* configuration.token_separators[0]: the default, and one-character ones a
\* configuration file or --token-separator can give.
OptionDelimiters == {<<":", ":">>, <<":">>, <<".">>}

\* --loop-timeout (type=float), in tenths of a second: 0.0, 0.5, 1.0, 2.5.
LoopTimeoutTenths == {0, 5, 10, 25}

DigitChars == <<"0", "1", "2", "3", "4", "5", "6", "7", "8", "9">>
IsDigit(c) == \E d \in 1..10 : DigitChars[d] = c
DigitValue(c) == (CHOOSE d \in 1..10 : DigitChars[d] = c) - 1

\* str(float) of a number of tenths below 10.0: "2.5"; str(int(b)): "1", "0".
FloatStr(tenths) ==
    <<DigitChars[(tenths \div 10) + 1], ".", DigitChars[(tenths % 10) + 1]>>
BoolStr(b) == IF b THEN <<"1">> ELSE <<"0">>

\* float(s), in tenths: digit, digit "." digit, digit ".", "." digit, with
\* blanks around; ValueError for anything else.
FloatForm(t) ==
    IF Len(t) = 1 /\ IsDigit(t[1]) THEN "d"
    ELSE IF Len(t) = 2 /\ IsDigit(t[1]) /\ t[2] = "." THEN "d."
    ELSE IF Len(t) = 2 /\ t[1] = "." /\ IsDigit(t[2]) THEN ".d"
    ELSE IF Len(t) = 3 /\ IsDigit(t[1]) /\ t[2] = "." /\ IsDigit(t[3]) THEN "d.d"
    ELSE "ValueError"
ParseFloat(s) ==
    LET t == strip(s) IN
    CASE FloatForm(t) = "d"   -> 10 * DigitValue(t[1])
      [] FloatForm(t) = "d."  -> 10 * DigitValue(t[1])
      [] FloatForm(t) = ".d"  -> DigitValue(t[2])
      [] FloatForm(t) = "d.d" -> 10 * DigitValue(t[1]) + DigitValue(t[3])

\* int(s) of one digit with blanks around; ValueError for anything else.
IntForm(t) == IF Len(t) = 1 /\ IsDigit(t[1]) THEN "d" ELSE "ValueError"
ParseInt(s) == DigitValue(strip(s)[1])

\* str.lower() over the letters of the model.
LowerChar(c) ==
    CASE c = "A" -> "a" [] c = "I" -> "i" [] c = "M" -> "m"
      [] c = "S" -> "s" [] c = "T" -> "t" [] c = "Z" -> "z"
      [] OTHER -> c
lower(s) == [i \in 1..Len(s) |-> LowerChar(s[i])]

OptionTitle == <<"t", "i", "t", "l", "e">>
OptionKeepOpened == <<"k", "e", "e", "p", "-", "o", "p", "e", "n", "e", "d">>
OptionLoopTimeout == <<"l", "o", "o", "p", "-", "t", "i", "m", "e", "o", "u", "t">>
OptionNames == {OptionTitle, OptionKeepOpened, OptionLoopTimeout}

\* value2menu_options: `title = "Menu"; loop_timeout = 0.0; keep_opened = True`.
DefaultOptions ==
    [title |-> <<"M", "e", "n", "u">>, keep_opened |-> TRUE, loop_timeout |-> 0,
     error |-> "none"]

\* value2menu_options: the `while tokens: match tokens[0].strip().lower()`
\* loop; tokens[1] of a last token raises IndexError, int() and float() raise
\* ValueError.
RECURSIVE ParseTokens(_, _)
ParseTokens(toks, acc) ==
    IF toks = <<>> THEN <<acc, toks>>
    ELSE LET name == lower(strip(toks[1])) IN
         IF name \notin OptionNames THEN <<acc, toks>>
         ELSE IF Len(toks) < 2
         THEN <<[acc EXCEPT !.error = "IndexError"], toks>>
         ELSE LET rest == SubSeq(toks, 3, Len(toks)) IN
              IF name = OptionTitle
              THEN ParseTokens(rest, [acc EXCEPT !.title = toks[2]])
              ELSE IF name = OptionKeepOpened
              THEN IF IntForm(strip(toks[2])) = "ValueError"
                   THEN <<[acc EXCEPT !.error = "ValueError"], toks>>
                   ELSE ParseTokens(rest,
                            [acc EXCEPT !.keep_opened = ParseInt(toks[2]) # 0])
              ELSE IF FloatForm(strip(toks[2])) = "ValueError"
                   THEN <<[acc EXCEPT !.error = "ValueError"], toks>>
                   ELSE ParseTokens(rest,
                            [acc EXCEPT !.loop_timeout = ParseFloat(toks[2])])

\* Menu.value2menu_options: the options and the remaining value.
value2menu_options(value, sep) ==
    LET parsed == ParseTokens(split(value, sep), DefaultOptions) IN
    [title |-> parsed[1].title, keep_opened |-> parsed[1].keep_opened,
     loop_timeout |-> parsed[1].loop_timeout, error |-> parsed[1].error,
     value |-> join(sep, parsed[2])]

\* main_async: the value of the root Menu of the menu command.
RootValue(title, loop_timeout, run_once, sep) ==
    join(sep, <<OptionTitle, title, OptionLoopTimeout, FloatStr(loop_timeout),
                OptionKeepOpened, BoolStr(~run_once)>>)

\* Menu.__init__: BaseItem.__init__ decodes the texts off the value, then
\* the options are read off what remains.
MenuNew(value, sep) == value2menu_options(str2item_texts(value, sep).rest, sep)

\* Values handed to value2menu_options as they are: up to three tokens.
ValueTokens == {<<"x">>, <<>>, OptionTitle, <<"1">>}
Values(sep) ==
    {join(sep, toks) : toks \in UNION {[1..n -> ValueTokens] : n \in 1..3}}

NotBuilt == <<>>

\* The menu command: main_async builds the root Menu.
BuildRoot ==
    /\ options.kind = "command" /\ options.built = NotBuilt
    /\ options' = [options EXCEPT
            !.value = RootValue(options.title, options.loop_timeout,
                                options.run_once, options.sep),
            !.built = MenuNew(RootValue(options.title, options.loop_timeout,
                                        options.run_once, options.sep),
                              options.sep)]
    /\ UNCHANGED <<external, registry, pipewire, navVars, cacheVars, decodeVars,
                   runVars, inlineVars, configVars, helperVars>>

\* value2menu_options applied to a value (MenuExternal.set_items: the first
\* line of the program's output).
ReadOptions ==
    /\ options.kind = "value" /\ options.built = NotBuilt
    /\ options' = [options EXCEPT
            !.built = value2menu_options(options.value, options.sep)]
    /\ UNCHANGED <<external, registry, pipewire, navVars, cacheVars, decodeVars,
                   runVars, inlineVars, configVars, helperVars>>

----------------------------------------------------------------------------
(* The registry of item types: item/items.py, main.py                      *)

\* item_names_value, as the characters of each name.
item_names_value ==
    << <<"a", "u", "d", "i", "o", "m", "e", "n", "u">>,
       <<"i", "t", "e", "m">>,
       <<"i", "t", "e", "m", "_", "e", "x", "t", "e", "r", "n", "a", "l">>,
       <<"m", "e", "n", "u", "_", "e", "x", "t", "e", "r", "n", "a", "l">>,
       <<"m", "e", "n", "u", "_", "i", "n", "l", "i", "n", "e">>,
       <<"s", "y", "n", "c", "t", "h", "i", "n", "g", "m", "e", "n", "u">>,
       <<"s", "y", "s", "t", "e", "m", "d", "u", "n", "i", "t">>,
       <<"z", "e", "r", "o", "t", "i", "e", "r", "n", "e", "t", "w", "o", "r", "k">> >>

RegisteredNames == {item_names_value[k] : k \in 1..Len(item_names_value)}

\* Names no case of get_item_class matches, however they are written.
UnknownNames ==
    { <<>>, <<"m", "e", "n", "u">>, <<"i", "t", "e", "m", "s">>,
      <<"i", "t", "e", "m", " ", "e", "x", "t", "e", "r", "n", "a", "l">>,
      <<"s", "e", "p", "a", "r", "a", "t", "o", "r">> }

NoClass == "none"

\* A get_item_class that matches the name as it is written (used to test
\* UnknownTypeExitsWithOne).
get_item_class_exact(name) ==
    CASE name = item_names_value[1] -> [exc |-> NoExc, klass |-> "MenuAudio"]
      [] name = item_names_value[2] -> [exc |-> NoExc, klass |-> "Item"]
      [] name = item_names_value[3] -> [exc |-> NoExc, klass |-> "ItemExternal"]
      [] name = item_names_value[4] -> [exc |-> NoExc, klass |-> "MenuExternal"]
      [] name = item_names_value[5] -> [exc |-> NoExc, klass |-> "MenuInline"]
      [] name = item_names_value[6] -> [exc |-> NoExc, klass |-> "ItemSyncthing"]
      [] name = item_names_value[7] -> [exc |-> NoExc, klass |-> "ItemSystemdUnit"]
      [] name = item_names_value[8] ->
            [exc |-> NoExc, klass |-> "ItemZerotierNetwork"]
      [] OTHER -> [exc |-> SystemExit(1), klass |-> NoClass]

\* get_item_class: `match name.strip().lower()`, and `sys.exit(1)` in the
\* default case.
get_item_class(name) ==
    LET n == lower(strip(name)) IN
    CASE n = item_names_value[1] -> [exc |-> NoExc, klass |-> "MenuAudio"]
      [] n = item_names_value[2] -> [exc |-> NoExc, klass |-> "Item"]
      [] n = item_names_value[3] -> [exc |-> NoExc, klass |-> "ItemExternal"]
      [] n = item_names_value[4] -> [exc |-> NoExc, klass |-> "MenuExternal"]
      [] n = item_names_value[5] -> [exc |-> NoExc, klass |-> "MenuInline"]
      [] n = item_names_value[6] -> [exc |-> NoExc, klass |-> "ItemSyncthing"]
      [] n = item_names_value[7] -> [exc |-> NoExc, klass |-> "ItemSystemdUnit"]
      [] n = item_names_value[8] ->
            [exc |-> NoExc, klass |-> "ItemZerotierNetwork"]
      [] OTHER -> [exc |-> SystemExit(1), klass |-> NoClass]

\* str.capitalize() of a name of the model.
Capitalised(name) ==
    IF name = <<>> THEN name
    ELSE [i \in 1..Len(name) |->
             IF i > 1 THEN name[i]
             ELSE CASE name[1] = "a" -> "A" [] name[1] = "i" -> "I"
                    [] name[1] = "m" -> "M" [] name[1] = "s" -> "S"
                    [] name[1] = "z" -> "Z" [] OTHER -> name[1]]

\* The ways a name is written in a value or in a line of a program's output.
Written(name) ==
    { name, <<" ">> \o name, name \o <<" ">>, Capitalised(name),
      <<"\t">> \o Capitalised(name) \o <<" ">> }

\* The delimiter of a MenuInline value (token_separators[1]) and of a
\* MenuExternal line (the first token separator).
RegistryDelimiter == <<":">>

\* Where get_item_class is called from: main_async for the types of the
\* command line (argparse admits the registered names only),
\* get_item_type_value for a MenuInline, MenuExternal.set_items for a line of
\* the program's output.
RegistryCalls ==
    { [route |-> "command", text |-> name, depth |-> 0] :
          name \in RegisteredNames }
    \cup
    { [route |-> route, text |-> w \o RegistryDelimiter \o <<"v">>,
       depth |-> d] :
          route \in {"inline", "external"},
          w \in UNION {Written(name) : name \in RegisteredNames \cup UnknownNames},
          d \in 1..MaxDepth }

\* `tokens.pop(0)` after `value.split(...)`; the command line gives the name.
DiscriminantName(call) ==
    IF call.route = "command" THEN call.text
    ELSE split(call.text, RegistryDelimiter)[1]

\* get_item_class(...) in main_async, or in the set_items() of a show().
GetItemClass ==
    /\ registry # <<>> /\ registry.pc = "call"
    /\ LET r == get_item_class(DiscriminantName(registry.call)) IN
           registry' = [registry EXCEPT
               !.pc = IF r.exc = NoExc THEN "resolved" ELSE "raise",
               !.klass = r.klass,
               !.exc = r.exc]
    /\ UNCHANGED <<external, options, pipewire, navVars, cacheVars, decodeVars,
                   runVars, inlineVars, configVars, helperVars>>

\* The exception leaves a show() and the execute() that called it: neither
\* has a handler for it.
RegistryUnwind ==
    /\ registry # <<>> /\ registry.pc = "raise" /\ registry.depth > 0
    /\ registry' = [registry EXCEPT !.depth = @ - 1]
    /\ UNCHANGED <<external, options, pipewire, navVars, cacheVars, decodeVars,
                   runVars, inlineVars, configVars, helperVars>>

\* main_async: `except SystemExit as e: sys.exit(e.code)`, `except:
\* sys.exit(1)`.
RegistryMainAsync ==
    /\ registry # <<>> /\ registry.pc = "raise" /\ registry.depth = 0
    /\ registry' = [registry EXCEPT !.pc = "exited",
                                    !.code = <<MainExitCode(registry.exc)>>]
    /\ UNCHANGED <<external, options, pipewire, navVars, cacheVars, decodeVars,
                   runVars, inlineVars, configVars, helperVars>>

----------------------------------------------------------------------------
(* Pipewire.build(): modules/pipewire.py                                   *)

\* `for _ in range(10):`
PW_DUMP_ATTEMPTS == 10

\* The longest list pw-dump prints in the model.
MaxNodes == 2

\* The interfaces build() keeps, and one it drops.
KeptInterfaces ==
    {"PipeWire:Interface:Device", "PipeWire:Interface:Metadata",
     "PipeWire:Interface:Node", "PipeWire:Interface:Link",
     "PipeWire:Interface:Port"}
NodeTypes ==
    {"PipeWire:Interface:Node", "PipeWire:Interface:Port",
     "PipeWire:Interface:Client"}

RECURSIVE NodeLists(_)
NodeLists(n) ==
    IF n = 0 THEN {<<>>}
    ELSE LET shorter == NodeLists(n - 1) IN
         shorter \cup {l \o <<[type |-> t]>> : l \in shorter, t \in NodeTypes}

\* What json.loads returns for an output that parses: a list of objects, or
\* a document whose root is no list.
ParsedOutputs ==
    {[kind |-> "list", items |-> l] : l \in NodeLists(MaxNodes)}
    \cup {[kind |-> "object", items |-> <<>>], [kind |-> "null", items |-> <<>>]}

\* What ends an attempt in the `except:` branch: pw-dump cannot be started,
\* or its output has more than one list at root level.
AttemptErrors == {"FileNotFoundError", "JSONDecodeError"}

\* Pipewire.__init__: `self.pwdump = []; self.nodes = []`.
PipewireNew ==
    [pc |-> "loop", attempt |-> 0, failures |-> 0, parsed |-> FALSE,
     pwdump |-> [kind |-> "list", items |-> <<>>], nodes |-> <<>>,
     error |-> "none"]

\* A loop that goes on after an output has parsed (used to test
\* BuildStopsAtFirstParse).
AfterAttemptContinues(parsed) == "loop"

\* build: `except: continue` and `else: break`.
AfterAttempt(parsed) == IF parsed THEN "filter" ELSE "loop"

\* The comprehension of build().
RECURSIVE KeptNodes(_)
KeptNodes(items) ==
    IF items = <<>> THEN <<>>
    ELSE (IF Head(items).type \in KeptInterfaces THEN <<Head(items)>> ELSE <<>>)
         \o KeptNodes(Tail(items))

\* One pass of the loop that ends in `except: continue`.
PwDumpFails ==
    /\ pipewire # <<>> /\ pipewire.pc = "loop"
    /\ pipewire.attempt < PW_DUMP_ATTEMPTS
    /\ \E e \in AttemptErrors :
          pipewire' = [pipewire EXCEPT !.attempt = @ + 1, !.failures = @ + 1,
                                       !.error = e,
                                       !.pc = AfterAttempt(FALSE)]
    /\ UNCHANGED <<external, options, registry, navVars, cacheVars, decodeVars,
                   runVars, inlineVars, configVars, helperVars>>

\* One pass of the loop whose json.loads returns: `else: break`.
PwDumpParses ==
    /\ pipewire # <<>> /\ pipewire.pc = "loop"
    /\ pipewire.attempt < PW_DUMP_ATTEMPTS
    /\ \E out \in ParsedOutputs :
          pipewire' = [pipewire EXCEPT !.attempt = @ + 1, !.parsed = TRUE,
                                       !.pwdump = out, !.error = "none",
                                       !.pc = AfterAttempt(TRUE)]
    /\ UNCHANGED <<external, options, registry, navVars, cacheVars, decodeVars,
                   runVars, inlineVars, configVars, helperVars>>

\* range(10) is exhausted.
PwDumpGivesUp ==
    /\ pipewire # <<>> /\ pipewire.pc = "loop"
    /\ pipewire.attempt = PW_DUMP_ATTEMPTS
    /\ pipewire' = [pipewire EXCEPT !.pc = "filter"]
    /\ UNCHANGED <<external, options, registry, navVars, cacheVars, decodeVars,
                   runVars, inlineVars, configVars, helperVars>>

\* `self.nodes = [node for node in self.pwdump if node["type"] in {...}]`:
\* a TypeError when the document's root is no list of objects.
SetNodes ==
    /\ pipewire # <<>> /\ pipewire.pc = "filter"
    /\ pipewire' =
          IF pipewire.pwdump.kind = "list"
          THEN [pipewire EXCEPT !.nodes = KeptNodes(pipewire.pwdump.items),
                                !.pc = "done"]
          ELSE [pipewire EXCEPT !.error = "TypeError", !.pc = "raised"]
    /\ UNCHANGED <<external, options, registry, navVars, cacheVars, decodeVars,
                   runVars, inlineVars, configVars, helperVars>>

----------------------------------------------------------------------------
(* One Menu.show() over any declared children: item/menu.py, interface.py *)

MaxItems == 3

\* Children a Menu can declare, after set_text(): some with a text, some whose
\* text resolved to the empty string, one whose text is a blank, a raw one
\* whose text is an icon token; two of them are the same declaration (same
\* item_type and raw_value) resolved twice. The fields differ in length.
ItemPool ==
    { [item_type |-> "ItemExternal", raw_value |-> "x", type |-> "action",
       category |-> <<"c">>, subcategory |-> <<>>, status |-> <<"o">>,
       text |-> <<"x">>],
      [item_type |-> "ItemExternal", raw_value |-> "x", type |-> "action",
       category |-> <<"c">>, subcategory |-> <<>>, status |-> <<"o">>,
       text |-> <<>>],
      [item_type |-> "ItemExternal", raw_value |-> "r", type |-> "raw",
       category |-> <<>>, subcategory |-> <<>>, status |-> <<>>,
       text |-> <<"<", "m", "e", "n", "u", ">">>],
      [item_type |-> "ItemExternal", raw_value |-> "b", type |-> "raw",
       category |-> <<>>, subcategory |-> <<>>, status |-> <<>>,
       text |-> <<" ">>],
      [item_type |-> "ItemExternal", raw_value |-> "e", type |-> "raw",
       category |-> <<>>, subcategory |-> <<>>, status |-> <<>>,
       text |-> <<>>],
      [item_type |-> "MenuChoices", raw_value |-> "m", type |-> "menu",
       category |-> <<"c", "c">>, subcategory |-> <<"s">>, status |-> <<>>,
       text |-> <<"m", "m">>] }

ItemLists == UNION {[1..n -> ItemPool] : n \in 0..MaxItems}

\* last_item_id: the empty string of the first show(), the identifier of a
\* child, or that of an item the Menu no longer declares.
LastItemIds ==
    {NoId} \cup {identifier(i) : i \in ItemPool} \cup {<<"ItemExternal", "z">>}

NoRow == -1
NoResult == <<>>

\* Menu.show(): the Interface is built with last_item_id and
\* items=[item for item in items_instances if item.visible].
BuildInterface ==
    /\ runpc = "show"
    /\ \E last_item_id \in LastItemIds :
        interface_last_item_id' = last_item_id
    /\ interface_items' = SelectSeq(items_instances, visible)
    /\ runpc' = "run"
    /\ UNCHANGED <<items_instances, selected, picker_output, run_result,
                   navVars, cacheVars, decodeVars,
                   inlineVars, configVars, helperVars, unitVars>>

\* Interface.run(): `selected = next((index ...), 0)`, then run_menu(selected).
Run ==
    /\ runpc = "run"
    /\ selected' = SelectedRow(interface_items, interface_last_item_id)
    /\ runpc' = "run_menu"
    /\ UNCHANGED <<items_instances, interface_items, interface_last_item_id,
                   picker_output, run_result, navVars, cacheVars, decodeVars,
                   inlineVars, configVars, helperVars, unitVars>>

\* What the picker can write: a line it was given, nothing, or what the user
\* typed, which may be the line a hidden child would have had.
TypedLines == Lines(items_instances) \cup {<<"z">>}
RunRofiOutputs == RofiOutputs(interface_items) \cup {l \o NL : l \in TypedLines}
RunFzfOutputs ==
    FzfOutputs(interface_items)
    \cup {k \o NL \o l \o NL : k \in FzfKeys, l \in TypedLines}

\* run_menu: communicate() returns and the output is mapped to an outcome.
RunMenu ==
    /\ runpc = "run_menu"
    /\ IF interface = "rofi"
       THEN \E rc \in RofiReturnCodes, out \in RunRofiOutputs :
                /\ picker_output' = [returncode |-> rc, stdout |-> out]
                /\ run_result' = RofiRunMenu(interface_items, rc, out)
       ELSE \E out \in RunFzfOutputs :
                /\ picker_output' = [returncode |-> 0, stdout |-> out]
                /\ run_result' = FzfRunMenu(interface_items, out)
    /\ runpc' = "returned"
    /\ UNCHANGED <<items_instances, interface_items, interface_last_item_id,
                   selected, navVars, cacheVars, decodeVars,
                   inlineVars, configVars, helperVars, unitVars>>

RunIdle ==
    /\ items_instances = <<>> /\ interface_items = <<>>
    /\ interface_last_item_id = NoId /\ selected = NoRow
    /\ picker_output = NoResult /\ run_result = NoResult /\ runpc = "idle"

----------------------------------------------------------------------------
(* The fan-out of Menu.show() and BaseItem.get_shared_data(): item/base.py *)

\* Variants whose set_text() calls get_shared_data(), each class with its own
\* `lock = asyncio.Lock()`, and a variant whose set_text() only awaits I/O.
SharedVariants == {"MenuAudioNode", "ItemAudioNodeChange"}
PlainVariants == {"ItemExternal"}
VariantOrder == <<"ItemExternal", "MenuAudioNode", "ItemAudioNodeChange">>

\* A clear() that leaves the dictionary as it is (used to test
\* NestedShowClears).
ClearedKeeps(sh) == sh

\* `self.shared.clear()`: no key is left.
Cleared(sh) == [v \in SharedVariants |-> [stale |-> FALSE, n |-> 0]]

\* `self.item_type not in self.shared`: no value stored. A stored value is
\* one object: it is named by the number of the set_shared_data() call that
\* built it among those begun during the current show(), or as one whose
\* call began during an earlier show().
Absent == [stale |-> FALSE, n |-> 0]
StaleValue == [stale |-> TRUE, n |-> 0]

\* The child lists a Menu can declare: how many children of each variant
\* (the tasks of one gather() differ only by their variant).
RECURSIVE Repeat(_, _)
Repeat(x, n) == IF n = 0 THEN <<>> ELSE <<x>> \o Repeat(x, n - 1)
ChildLists ==
    {Repeat(VariantOrder[1], n[1]) \o Repeat(VariantOrder[2], n[2])
        \o Repeat(VariantOrder[3], n[3]) :
        n \in {c \in [1..3 -> 0..MaxSiblings] :
                  1 <= c[1] + c[2] + c[3] /\ c[1] + c[2] + c[3] <= MaxSiblings}}

InFlight(t) == t.pc \in {"ready", "waiting", "computing"}
\* The tasks the current show() made, and those that call for variant v.
Current == {i \in 1..Len(tasks) : ~tasks[i].stale}
Callers(v) == {i \in Current : tasks[i].variant = v}

\* A task is referred to while it runs, and by the gather() of the current
\* show() once it has finished.
Referenced(t) == InFlight(t) \/ ~t.stale

\* The tasks and lock queues after a step: finished tasks nobody refers to
\* are dropped and the queues follow the renumbering.
Commit(ts, ws) ==
    LET renum(j) == Cardinality({k \in 1..j : Referenced(ts[k])}) IN
    /\ tasks' = SelectSeq(ts, Referenced)
    /\ waiters' = [v \in SharedVariants |->
                      [k \in 1..Len(ws[v]) |-> renum(ws[v][k])]]

\* A lock that stays held once taken (used to test SharedDataReturns).
ReleasedNever(v) == locked

\* The end of `async with self.lock`, by return or by exception: release().
Released(v) == [locked EXCEPT ![v] = FALSE]

\* get_shared_data() without the lock (used to test SingleInitialization).
CanAcquireUnlocked(v) == TRUE

\* `async with self.lock`: asyncio.Lock.acquire() takes the lock without
\* suspending when it is free and nobody waits for it.
CanAcquire(v) == ~locked[v] /\ waiters[v] = <<>>

\* A show() that waits for the first task only (used to test FanInBarrier).
GatherReadyFirst == \E i \in Current : tasks[i].pc = "done"

\* asyncio.gather(...) resumes show() once every child task has finished.
GatherReady == \A i \in Current : tasks[i].pc = "done"

\* get_shared_data() holding the lock: return the stored value, or start
\* set_shared_data(). No await lies between acquire, the test, the release
\* after a hit, and the return.
Enter(i, ws) ==
    LET v == tasks[i].variant IN
    IF shared[v] # Absent
    THEN /\ Commit([tasks EXCEPT ![i].pc = "done", ![i].ret = shared[v]], ws)
         /\ locked' = Released(v)
         /\ UNCHANGED <<shared, calls>>
    ELSE /\ calls' = [calls EXCEPT ![v] = @ + 1]
         /\ Commit([tasks EXCEPT ![i].pc = "computing",
                       ![i].ret = [stale |-> FALSE, n |-> calls'[v]]], ws)
         /\ locked' = [locked EXCEPT ![v] = TRUE]
         /\ UNCHANGED shared

\* Menu.show(): self.shared.clear(), then `await self.set_items()`. The tasks
\* of the show() before, if still running, are now those of an earlier show().
ShowBegins ==
    /\ showpc' = "set_items"
    /\ shared' = Cleared(shared)
    /\ calls' = [v \in SharedVariants |-> 0]
    /\ leaked' = {v \in SharedVariants :
                     \E i \in 1..Len(tasks) : tasks[i].variant = v /\ InFlight(tasks[i])}
    /\ Commit([k \in 1..Len(tasks) |->
                  [tasks[k] EXCEPT !.stale = TRUE,
                      !.ret = IF @ = Absent THEN Absent ELSE StaleValue]], waiters)
    /\ UNCHANGED <<locked, navVars, decodeVars, runVars, inlineVars, configVars, helperVars, unitVars>>

\* Menu.execute() calls show() again after a show() that returned.
CacheShowStart ==
    /\ showpc \in {"idle", "returned", "aborted"}
    /\ ShowBegins
    /\ UNCHANGED outer

\* Menu.show(): the selected item is a Menu, `await selected_item.execute()`
\* runs its show() in the same process, on the same BaseItem.shared, while
\* the show() of the parent waits; what the parent's step had stored is
\* noted with the waiting show().
ExecuteMenu ==
    /\ showpc = "run"
    /\ Len(outer) < MaxNesting
    /\ outer' = Append(outer, [computed |-> shared])
    /\ ShowBegins

\* The nested Menu.execute() returns after a show() of its own has returned:
\* the show() of the parent returns in its turn.
ExecuteMenuReturns ==
    /\ showpc \in {"returned", "aborted"}
    /\ outer # <<>>
    /\ outer' = SubSeq(outer, 1, Len(outer) - 1)
    /\ showpc' = "returned"
    /\ UNCHANGED <<tasks, shared, locked, waiters, calls, leaked, navVars, decodeVars, runVars, inlineVars, configVars, helperVars, unitVars>>

\* Menu.show(): the children are instantiated and gather() makes one task of
\* each set_text_wrapper().
Gather ==
    /\ showpc = "set_items"
    /\ \E children \in ChildLists :
        /\ Len(tasks) + Len(children) <= MaxTasks
        /\ tasks' = tasks \o [k \in 1..Len(children) |->
                        [stale |-> FALSE, variant |-> children[k],
                         pc |-> "ready", ret |-> Absent]]
    /\ showpc' = "gather"
    /\ UNCHANGED <<shared, locked, waiters, calls, leaked, outer, navVars, decodeVars, runVars, inlineVars, configVars, helperVars, unitVars>>

\* set_text() reaches get_shared_data().
TaskStart(i) ==
    /\ tasks[i].pc = "ready"
    /\ tasks[i].variant \in SharedVariants
    /\ LET v == tasks[i].variant IN
       IF CanAcquire(v)
       THEN Enter(i, waiters)
       ELSE /\ tasks' = [tasks EXCEPT ![i].pc = "waiting"]
            /\ waiters' = [waiters EXCEPT ![v] = Append(@, i)]
            /\ UNCHANGED <<shared, locked, calls>>
    /\ UNCHANGED <<showpc, leaked, outer, navVars, decodeVars, runVars, inlineVars, configVars, helperVars, unitVars>>

\* The first waiter is woken by release() and takes the lock.
TaskWake(i) ==
    /\ tasks[i].pc = "waiting"
    /\ LET v == tasks[i].variant IN
       /\ ~locked[v] /\ waiters[v] # <<>> /\ Head(waiters[v]) = i
       /\ Enter(i, [waiters EXCEPT ![v] = Tail(@)])
    /\ UNCHANGED <<showpc, leaked, outer, navVars, decodeVars, runVars, inlineVars, configVars, helperVars, unitVars>>

\* A show() that lets the failure pass (used to test DecodeErrorAborts).
ShowIgnoresFailure(i, error) == showpc

\* What the failure of a text-resolution task does to the show() that awaits
\* the gather(): DecodeStringError makes it return "", "", anything else
\* leaves it. A task of an earlier show() is awaited by nobody.
ShowAfterFailure(i, error) ==
    IF ~tasks[i].stale /\ showpc = "gather"
    THEN (IF ShowCatches(error) THEN "aborted" ELSE "crashed")
    ELSE showpc

\* asyncio.run() ends with the exception: the tasks still pending are cancelled.
CancelAll(ts) ==
    [k \in 1..Len(ts) |-> IF InFlight(ts[k]) THEN [ts[k] EXCEPT !.pc = "cancelled"]
                          ELSE ts[k]]

\* set_shared_data() returns: store, release, return self.shared[item_type].
SetSharedDataDone(i) ==
    /\ tasks[i].pc = "computing"
    /\ LET v == tasks[i].variant IN
       /\ shared' = [shared EXCEPT ![v] = tasks[i].ret]
       /\ locked' = Released(v)
       /\ Commit([tasks EXCEPT ![i].pc = "done", ![i].ret = shared'[v]], waiters)
    /\ UNCHANGED <<showpc, calls, leaked, outer, navVars, decodeVars, runVars, inlineVars, configVars, helperVars, unitVars>>

\* set_shared_data() raises (BaseItem.set_shared_data: NotImplementedError):
\* the lock is released, nothing is stored. An exception that leaves show()
\* reaches main_async, which exits the process.
SetSharedDataFails(i) ==
    /\ tasks[i].pc = "computing"
    /\ showpc' = ShowAfterFailure(i, "NotImplementedError")
    /\ LET failed == [tasks EXCEPT ![i].pc = "failed", ![i].ret = Absent] IN
       IF showpc' = "crashed"
       THEN /\ Commit(CancelAll(failed), [v \in SharedVariants |-> <<>>])
            /\ locked' = [v \in SharedVariants |-> FALSE]
            /\ exitCode' = <<MainExitCode(Exception("NotImplementedError"))>>
       ELSE /\ Commit(failed, waiters)
            /\ locked' = Released(tasks[i].variant)
            /\ exitCode' = exitCode
    /\ UNCHANGED <<shared, calls, leaked, outer, stack, exc, interface,
                   decodeVars,
                   runVars, inlineVars, configVars, helperVars, unitVars>>

\* The I/O of a set_text() without shared data ends: the text is set.
TaskIoDone(i) ==
    /\ tasks[i].pc = "ready"
    /\ tasks[i].variant \in PlainVariants
    /\ Commit([tasks EXCEPT ![i].pc = "done"], waiters)
    /\ UNCHANGED <<showpc, shared, locked, calls, leaked, outer, navVars, decodeVars, runVars, inlineVars, configVars, helperVars, unitVars>>

\* The value of a child cannot be decoded into the fields its variant
\* requires: set_text() raises DecodeStringError.
TaskDecodeFails(i) ==
    /\ tasks[i].pc = "ready"
    /\ tasks[i].variant \in PlainVariants
    /\ Commit([tasks EXCEPT ![i].pc = "failed"], waiters)
    /\ showpc' = ShowAfterFailure(i, "DecodeStringError")
    /\ UNCHANGED <<shared, locked, calls, leaked, outer, navVars, decodeVars, runVars, inlineVars, configVars, helperVars, unitVars>>

\* gather() is done: show() goes on to Interface.run().
GatherDone ==
    /\ showpc = "gather"
    /\ GatherReady
    /\ showpc' = "run"
    /\ UNCHANGED <<tasks, shared, locked, waiters, calls, leaked, outer, navVars, decodeVars, runVars, inlineVars, configVars, helperVars, unitVars>>

\* Interface.run() and the rest of show() are over.
InterfaceDone ==
    /\ showpc = "run"
    /\ showpc' = "returned"
    /\ UNCHANGED <<tasks, shared, locked, waiters, calls, leaked, outer, navVars, decodeVars, runVars, inlineVars, configVars, helperVars, unitVars>>

CacheInit ==
    /\ showpc = "idle" /\ tasks = <<>>
    /\ shared = [v \in SharedVariants |-> Absent]
    /\ locked = [v \in SharedVariants |-> FALSE]
    /\ waiters = [v \in SharedVariants |-> <<>>]
    /\ calls = [v \in SharedVariants |-> 0]
    /\ leaked = {}
    /\ outer = <<>>
    /\ stack = <<>> /\ exc = NoExc /\ exitCode = Running /\ interface = "rofi"
    /\ DecodeIdle
    /\ RunIdle
    /\ InlineIdle
    /\ ConfigIdle
    /\ HelperIdle
    /\ UnitIdle

CacheNext ==
    \/ CacheShowStart
    \/ Gather
    \/ \E i \in 1..Len(tasks) : TaskStart(i)
    \/ \E i \in 1..Len(tasks) : TaskWake(i)
    \/ \E i \in 1..Len(tasks) : SetSharedDataDone(i)
    \/ \E i \in 1..Len(tasks) : SetSharedDataFails(i)
    \/ \E i \in 1..Len(tasks) : TaskIoDone(i)
    \/ \E i \in 1..Len(tasks) : TaskDecodeFails(i)
    \/ GatherDone
    \/ InterfaceDone

SpecCache == CacheInit /\ [][CacheNext]_vars

\* The same show(), with the selected item a Menu that is executed in the
\* process: every step of the fan-out that src/ holds, and the nested
\* execute().
NestNext ==
    \/ CacheShowStart
    \/ Gather
    \/ \E i \in 1..Len(tasks) : TaskStart(i)
    \/ \E i \in 1..Len(tasks) : TaskWake(i)
    \/ \E i \in 1..Len(tasks) : SetSharedDataDone(i)
    \/ \E i \in 1..Len(tasks) : SetSharedDataFails(i)
    \/ \E i \in 1..Len(tasks) : TaskIoDone(i)
    \/ GatherDone
    \/ InterfaceDone
    \/ ExecuteMenu
    \/ ExecuteMenuReturns

SpecNest == CacheInit /\ [][NestNext]_vars

\* The fan-out of one show(): the event loop runs every task that can run,
\* and set_shared_data() and the I/O of set_text() end (by return or by
\* exception).
FirstShowStart ==
    /\ showpc = "idle"
    /\ CacheShowStart

FanOutNext ==
    \/ FirstShowStart
    \/ Gather
    \/ \E i \in 1..Len(tasks) : TaskStart(i)
    \/ \E i \in 1..Len(tasks) : TaskWake(i)
    \/ \E i \in 1..Len(tasks) : SetSharedDataDone(i)
    \/ \E i \in 1..Len(tasks) : SetSharedDataFails(i)
    \/ \E i \in 1..Len(tasks) : TaskIoDone(i)
    \/ \E i \in 1..Len(tasks) : TaskDecodeFails(i)
    \/ GatherDone
    \/ InterfaceDone

TaskRuns(i) ==
    /\ i <= Len(tasks)
    /\ \/ TaskStart(i) \/ TaskWake(i) \/ SetSharedDataDone(i)
       \/ SetSharedDataFails(i) \/ TaskIoDone(i) \/ TaskDecodeFails(i)

SpecFanOut ==
    /\ CacheInit /\ [][FanOutNext]_vars
    /\ \A i \in 1..MaxSiblings : WF_vars(TaskRuns(i))

----------------------------------------------------------------------------
CacheIdle ==
    /\ showpc = "idle" /\ tasks = <<>> /\ shared = <<>>
    /\ locked = <<>> /\ waiters = <<>> /\ calls = <<>> /\ leaked = {}
    /\ outer = <<>>

Init ==
    /\ \E ko \in BOOLEAN, lt \in LoopTimeouts : stack = <<NewFrame(TRUE, ko, lt)>>
    /\ exc = NoExc
    /\ exitCode = Running
    /\ interface \in {"rofi", "fzf"}
    /\ CacheIdle
    /\ DecodeIdle
    /\ RunIdle
    /\ InlineIdle
    /\ ConfigIdle
    /\ HelperIdle
    /\ UnitIdle

Next ==
    \/ ShowStart
    \/ ShowDecodeAbort
    \/ PickerDone
    \/ PickerTimeout
    \/ PickerWait
    \/ ExternalExit
    \/ ExternalMenu
    \/ ShowReturn
    \/ Unwind

Spec == Init /\ [][Next]_vars

DecodeInit ==
    /\ token_separator \in Delimiters
    /\ tokens \in {<<f>> \o q : f \in FirstFields, q \in FieldSeqs(MaxTokens - 1)}
    /\ encoded = join(token_separator, tokens)
    /\ decoded = NotDecoded /\ unpacked = NotDecoded
    /\ stack = <<>> /\ exc = NoExc /\ exitCode = Running /\ interface = "rofi"
    /\ CacheIdle
    /\ RunIdle
    /\ InlineIdle
    /\ ConfigIdle
    /\ HelperIdle
    /\ UnitIdle

DecodeNext ==
    \/ Decode
    \/ Unpack

SpecDecode == DecodeInit /\ [][DecodeNext]_vars

RunInit ==
    /\ items_instances \in ItemLists
    /\ interface_items = <<>> /\ interface_last_item_id = NoId
    /\ selected = NoRow /\ picker_output = NoResult
    /\ run_result = NoResult /\ runpc = "show"
    /\ stack = <<>> /\ exc = NoExc /\ exitCode = Running
    /\ interface \in {"rofi", "fzf"}
    /\ CacheIdle
    /\ DecodeIdle
    /\ InlineIdle
    /\ ConfigIdle
    /\ HelperIdle
    /\ UnitIdle

RunNext ==
    \/ BuildInterface
    \/ Run
    \/ RunMenu

SpecRun == RunInit /\ [][RunNext]_vars

InlineInit ==
    /\ separators \in SeparatorLists
    /\ inline_value \in Concats(MaxPieces)
    /\ inline_items = NotSet
    /\ stack = <<>> /\ exc = NoExc /\ exitCode = Running /\ interface = "rofi"
    /\ CacheIdle
    /\ DecodeIdle
    /\ RunIdle
    /\ ConfigIdle
    /\ HelperIdle
    /\ UnitIdle

InlineNext ==
    \/ SetItems

SpecInline == InlineInit /\ [][InlineNext]_vars

ConfigInit ==
    /\ requested_interface \in interface_choices \cup {Unset}
    /\ environ \in Environments
    /\ data \in [interface : ConfiguredValues \cup {Unset}]
    /\ configuration_interface = NotConfigured /\ interface_class = NotConfigured
    /\ stack = <<>> /\ exc = NoExc /\ exitCode = Running /\ interface = "rofi"
    /\ CacheIdle
    /\ DecodeIdle
    /\ RunIdle
    /\ InlineIdle
    /\ HelperIdle
    /\ UnitIdle

ConfigNext ==
    \/ GetConfiguration
    \/ ChooseInterface

SpecConfig == ConfigInit /\ [][ConfigNext]_vars

HelperInit ==
    /\ helper_args \in HelperRequests
    /\ helper_host \in HelperHosts
    /\ helper_result = NotRun
    /\ stack = <<>> /\ exc = NoExc /\ exitCode = Running /\ interface = "rofi"
    /\ CacheIdle
    /\ DecodeIdle
    /\ RunIdle
    /\ InlineIdle
    /\ ConfigIdle
    /\ UnitIdle

HelperNext ==
    \/ HelperRun

SpecHelper == HelperInit /\ [][HelperNext]_vars

\* The other specifications at rest, for the four small machines.
RestIdle ==
    /\ stack = <<>> /\ exc = NoExc /\ exitCode = Running /\ interface = "rofi"
    /\ CacheIdle
    /\ DecodeIdle
    /\ RunIdle
    /\ InlineIdle
    /\ ConfigIdle
    /\ HelperIdle

ExternalInit ==
    /\ \E ko \in BOOLEAN, lt \in LoopTimeouts : external = MenuExternalNew(ko, lt)
    /\ options = <<>> /\ registry = <<>> /\ pipewire = <<>>
    /\ RestIdle

ExternalNext ==
    \/ ExternalExecute
    \/ ExternalShow
    \/ ExternalShowReturn

SpecExternal == ExternalInit /\ [][ExternalNext]_vars

OptionsInit ==
    /\ \E sep \in OptionDelimiters :
        \/ \E title \in Strings(MaxTitle), lt \in LoopTimeoutTenths,
              run_once \in BOOLEAN :
              options = [kind |-> "command", sep |-> sep, title |-> title,
                         loop_timeout |-> lt, run_once |-> run_once,
                         value |-> <<>>, built |-> NotBuilt]
        \/ \E value \in Values(sep) :
              options = [kind |-> "value", sep |-> sep, title |-> <<>>,
                         loop_timeout |-> 0, run_once |-> FALSE,
                         value |-> value, built |-> NotBuilt]
    /\ external = <<>> /\ registry = <<>> /\ pipewire = <<>>
    /\ RestIdle

OptionsNext ==
    \/ BuildRoot
    \/ ReadOptions

SpecOptions == OptionsInit /\ [][OptionsNext]_vars

RegistryInit ==
    /\ \E call \in RegistryCalls :
          registry = [call |-> call, depth |-> call.depth, pc |-> "call",
                      klass |-> NoClass, exc |-> NoExc, code |-> Running]
    /\ external = <<>> /\ options = <<>> /\ pipewire = <<>>
    /\ RestIdle

RegistryNext ==
    \/ GetItemClass
    \/ RegistryUnwind
    \/ RegistryMainAsync

SpecRegistry == RegistryInit /\ [][RegistryNext]_vars

PipewireInit ==
    /\ pipewire = PipewireNew
    /\ external = <<>> /\ options = <<>> /\ registry = <<>>
    /\ RestIdle

PipewireNext ==
    \/ PwDumpFails
    \/ PwDumpParses
    \/ PwDumpGivesUp
    \/ SetNodes

\* Every pw-dump that was started ends, and the event loop resumes build().
SpecPipewire ==
    PipewireInit /\ [][PipewireNext]_vars /\ WF_vars(PipewireNext)

----------------------------------------------------------------------------
(* Properties *)

Frames == 1..Len(stack)
\* Menu.execute() has a show() result to act on.
Returned == exc = NoExc /\ stack # <<>> /\ Top.pc = "show_ret"
\* The quit sentinel is propagating.
Quitting == exc = SystemExit(QUIT_EXIT_CODE) /\ stack # <<>>

\* C1: in a show() called with loop_timeout > 0, once the interface has
\* reported selected (with an item or without), show() is returning action
\* back and calls execute() on no item.
LoopGuard ==
    \A k \in Frames :
        (stack[k].iaction = "selected" /\ ShowTimeout(stack[k]) # 0)
            => stack[k].pc = "show_ret" /\ stack[k].action = "back"

LoopGuardWitness ==
    \E k \in Frames :
        /\ stack[k].iaction = "selected" /\ ShowTimeout(stack[k]) # 0
        /\ stack[k].item # None /\ stack[k].pc = "show_ret"

\* C2: no show() is ever inside execute() of an item whose resolved type is
\* notification: with such an item reported, whatever the action and the
\* timeout, show() goes straight to its return.
NotificationNeverExecuted ==
    \A k \in Frames :
        (stack[k].item # None
            /\ VisibleItems(k)[stack[k].item].type = "notification")
            => stack[k].pc = "show_ret"

NotificationSelected ==
    \E k \in Frames :
        /\ stack[k].item # None
        /\ VisibleItems(k)[stack[k].item].type = "notification"
        /\ stack[k].iaction = "selected" /\ stack[k].action = "selected"
        /\ ShowTimeout(stack[k]) = 0

\* C3: when all the get_shared_data() calls of one variant in the current
\* show() have returned, and no task of an earlier show() was running when
\* the show() began, they made exactly one set_shared_data() call and
\* all returned the value it built, however the callers interleaved.
SingleInitialization ==
    \A v \in SharedVariants :
        (/\ v \notin leaked
         /\ Callers(v) # {}
         /\ \A i \in Callers(v) : tasks[i].pc = "done")
            => /\ calls[v] = 1
               /\ \A i \in Callers(v) : tasks[i].ret = [stale |-> FALSE, n |-> 1]
               /\ shared[v] = [stale |-> FALSE, n |-> 1]

ConcurrentCallersDone ==
    \E v \in SharedVariants :
        /\ v \notin leaked
        /\ Cardinality(Callers(v)) = MaxSiblings
        /\ \A i \in Callers(v) : tasks[i].pc = "done"

\* C4: while show() is in Interface.run(), the text-resolution task of every
\* child it instantiated has completed.
FanInBarrier ==
    showpc = "run" => \A i \in Current : tasks[i].pc = "done"

InterfaceRunsAfterAll ==
    showpc = "run" /\ Cardinality(Current) = MaxSiblings

\* C5: once the timeout of run_menu has fired, run_menu is waiting for the
\* terminated picker or has returned (restart, no item) with the picker no
\* longer running; it never ends otherwise.
TimeoutYieldsRestart ==
    \A k \in Frames :
        stack[k].tmo =>
            \/ stack[k].pc = "wait"
            \/ /\ stack[k].pc = "show_ret"
               /\ stack[k].iaction = "restart" /\ stack[k].item = None
               /\ stack[k].proc = "exited"


RestartShowsAgain ==
    [][(Returned /\ Top.action = "restart") =>
          Len(stack') = Len(stack) /\ Top'.pc = "call_show"]_vars

\* C8: a SystemExit is always the quit sentinel leaving a show(); while it
\* propagates, every step only ends one execute() (no show() starts, no
\* item is executed, at any nesting level), the exception stays the same
\* within the process, and the process ends with exit code 250.
QuitExitsProcess ==
    [][/\ exc'.type = "SystemExit" =>
            /\ exc'.code = QUIT_EXIT_CODE
            /\ stack' # <<>> /\ Top'.pc = "raise"
       /\ Quitting =>
            /\ Len(stack') = Len(stack) - 1
            /\ \A k \in 1..(Len(stack') - 1) : stack'[k] = stack[k]
            /\ ~Top.root => exc' = exc
            /\ (Top.root /\ stack' = <<>>) => exitCode' = <<QUIT_EXIT_CODE>>
            /\ (Top.root /\ stack' # <<>>) =>
                    Top'.returncode = <<QUIT_EXIT_CODE>>]_vars

QuitInNestedMenu ==
    /\ Quitting /\ Len(stack) = MaxDepth
    /\ \A k \in 2..Len(stack) : ~stack[k].root
    /\ Top.iaction = "" /\ Top.proc = "exited"

\* C9: when ItemExternal.execute() has got the return code of its program,
\* code 250 makes it raise SystemExit(250) and any other code makes it return
\* to a show() that returns normally; a process whose root Menu is left by
\* that SystemExit ends with code 250, which its parent process, if it has
\* one, gets as the return code of its own ItemExternal.
ExternalQuitPropagates ==
    [][/\ (/\ stack' # <<>> /\ Top'.returncode # Running
           /\ stack[Len(stack')].returncode = Running) =>
            IF Top'.returncode = <<QUIT_EXIT_CODE>>
            THEN exc' = SystemExit(QUIT_EXIT_CODE) /\ Top'.pc = "raise"
            ELSE exc' = NoExc /\ Top'.pc = "show_ret"
       /\ (Quitting /\ Top.root) =>
            IF Len(stack) = 1
            THEN exitCode' = <<QUIT_EXIT_CODE>>
            ELSE /\ Top'.returncode = <<QUIT_EXIT_CODE>>
                 /\ Len(stack') = Len(stack) - 1
       /\ (Quitting /\ ~Top.root) =>
            exc' = exc /\ Len(stack') = Len(stack) - 1]_vars

QuitFromChildProcess ==
    /\ Quitting /\ Top.returncode = <<QUIT_EXIT_CODE>>
    /\ Top.root /\ Len(stack) = MaxDepth - 1

\* C10: the interface never reports selected together with no item.
SelectedHasItem ==
    \A k \in Frames : stack[k].iaction = "selected" => stack[k].item # None


\* C11: when the picker has exited and no timeout fired, run_menu has
\* returned an action among selected, restart and back, or has exited the
\* process with the quit sentinel: it has not failed with an error.
RunMenuNeverFails ==
    \A k \in Frames :
        (stack[k].proc = "exited" /\ ~stack[k].tmo) =>
            \/ stack[k].iaction \in {"selected", "restart", "back"}
            \/ exc = SystemExit(QUIT_EXIT_CODE)


\* The children of the current show() whose text resolution raised
\* DecodeStringError.
DecodeFailed ==
    {i \in Current : tasks[i].pc = "failed" /\ tasks[i].variant \in PlainVariants}

\* C12: when the text resolution of a child raises DecodeStringError while
\* show() awaits the gather(), show() returns "", "" at once; a show() that
\* has returned so never runs the interface and executes no item: the next
\* thing to happen to the Menu is a new show().
DecodeErrorAborts ==
    [][/\ (showpc = "gather"
            /\ Cardinality(DecodeFailed') > Cardinality(DecodeFailed))
          => showpc' = "aborted"
       /\ showpc = "aborted" => showpc' \in {"aborted", "set_items"}]_vars

AbortedWithSiblingsRunning ==
    /\ showpc = "aborted" /\ DecodeFailed # {}
    /\ \E i \in Current : InFlight(tasks[i])


\* sub in s
Contains(s, sub) ==
    \E i \in 1..(Len(s) - Len(sub) + 1) : SubSeq(s, i, i + Len(sub) - 1) = sub

\* The string was joined from a type name and at least four more fields,
\* none of which contains the delimiter.
JoinedFromFields ==
    /\ decoded # NotDecoded
    /\ Len(tokens) >= 5
    /\ \E n \in ItemTextTypeNames : tokens[1] = NameChars(n)
    /\ \A k \in 1..Len(tokens) : ~Contains(tokens[k], token_separator)

\* C13 as stated: from join(d, [T, C, S, St, Text, Rest...]) with T a type
\* name and no field containing d, str2item_texts recovers exactly T, C, S,
\* St and Text, and the remainder join(d, Rest).
DecodeRecoversExactly ==
    JoinedFromFields =>
        /\ decoded.texts = [type |-> ItemTextTypeOf(tokens[1]),
                            category |-> tokens[2], subcategory |-> tokens[3],
                            status |-> tokens[4], text |-> tokens[5]]
        /\ decoded.rest = join(token_separator, SubSeq(tokens, 6, Len(tokens)))

\* C13: from join(d, [T, C, S, St, Text, Rest...]) with T a type name, no
\* field containing d and d occurring in the joined string only where the
\* fields were joined, str2item_texts recovers type T, and C, S and St
\* without their leading and trailing whitespace, and Text likewise, but
\* unchanged when T is raw; the remainder is join(d, Rest).
DecodeRecoversFields ==
    (JoinedFromFields /\ split(encoded, token_separator) = tokens) =>
        /\ decoded.texts =
              [type |-> ItemTextTypeOf(tokens[1]),
               category |-> strip(tokens[2]), subcategory |-> strip(tokens[3]),
               status |-> strip(tokens[4]),
               text |-> IF tokens[1] = NameChars("raw") THEN tokens[5]
                        ELSE strip(tokens[5])]
        /\ decoded.rest = join(token_separator, SubSeq(tokens, 6, Len(tokens)))

DecodedPaddedFields ==
    /\ JoinedFromFields /\ split(encoded, token_separator) = tokens
    /\ Len(tokens) = MaxTokens
    /\ tokens[1] = NameChars("raw")
    /\ tokens[2] = <<" ", "a">> /\ tokens[5] = <<"b", " ">>
    /\ tokens[MaxTokens] # <<>>

\* C14: str2item_texts returns the default ItemTexts and the whole input as
\* remainder whenever the split yields four tokens or fewer or the trimmed
\* first token is no type name; so it does for every input without delimiter.
DecodeFallsBack ==
    decoded # NotDecoded =>
        LET toks == split(encoded, token_separator)
            fallback == [texts |-> DefaultItemTexts, rest |-> encoded]
        IN  /\ (Len(toks) <= 4
                  \/ \A n \in ItemTextTypeNames : strip(toks[1]) # NameChars(n))
                => decoded = fallback
            /\ ~Contains(encoded, token_separator) => decoded = fallback

DecodedUnknownType ==
    /\ decoded # NotDecoded
    /\ Len(split(encoded, token_separator)) > 4
    /\ tokens[1] = <<"x">>
    /\ decoded.rest = encoded /\ decoded.texts = DefaultItemTexts


\* What the show() whose result execute() is acting on returned as identifier.
ReturnedId ==
    IF Top.item # None THEN identifier(VisibleItems(Depth)[Top.item]) ELSE NoId

TimedLoop ==
    [][/\ (Len(stack') > Len(stack) /\ Top'.loop_timeout # 0) =>
            /\ Top'.pc = "call_show" /\ Top'.selection = NoId
            /\ ShowTimeout(Top') = Top'.loop_timeout
       /\ (exc = NoExc /\ stack # <<>> /\ ShowTimeout(Top) # 0) =>
            /\ (Top.pc = "call_show" /\ Top'.pc = "picker") =>
                   Top'.last_item_id = Top.selection
            /\ (Top.pc = "picker" /\ Top'.tmo) => Top'.pc = "wait"
            /\ Top.pc = "wait" =>
                   Top'.pc = "show_ret" /\ Top'.action = "restart"
            /\ Top.pc = "show_ret" =>
                   /\ Len(stack') = Len(stack) /\ Top'.pc = "call_show"
                   /\ IF Top.action \in {"back", ""}
                      THEN ShowTimeout(Top') = 0
                      ELSE /\ ShowTimeout(Top') = Top.loop_timeout
                           /\ Top'.selection = ReturnedId]_vars


\* C17: every show() starts by emptying the shared cache, before set_items
\* and any text resolution, and no get_shared_data() call of the current
\* show() has returned a value whose set_shared_data() call began during
\* an earlier show().
CacheIsPerShow ==
    [][/\ (showpc # "set_items" /\ showpc' = "set_items") =>
            \A v \in SharedVariants : shared'[v] = Absent
       /\ \A i \in 1..Len(tasks') :
            (~tasks'[i].stale /\ tasks'[i].pc = "done") => ~tasks'[i].ret.stale]_vars


\* C18: once Interface.run() has computed the row it hands to the picker, that
\* row is the index (from 0) of the first item of the visible list whose
\* identifier equals last_item_id, it is 0 when no visible item has that
\* identifier, and it is an index of the visible list when the list is
\* non-empty.
HintMatches ==
    {k \in 1..Len(interface_items) :
        interface_items[k].item_type = interface_last_item_id[1]
        /\ interface_items[k].raw_value = interface_last_item_id[2]}
HintRow ==
    runpc \in {"run_menu", "returned"} =>
        /\ interface_last_item_id = NoId => selected = 0
        /\ interface_last_item_id # NoId /\ HintMatches = {} => selected = 0
        /\ interface_last_item_id # NoId /\ HintMatches # {} =>
            /\ selected + 1 \in HintMatches
            /\ \A j \in HintMatches : selected + 1 <= j
        /\ interface_items # <<>> => selected \in 0..(Len(interface_items) - 1)

\* The item selected before is still visible, on the second row, below a
\* child that was declared first and is hidden.
HintOnLaterRow ==
    /\ runpc = "run_menu"
    /\ selected = 1
    /\ interface_last_item_id # NoId
    /\ ~visible(items_instances[1])


\* C19: whenever a show() returns to an execute() that goes on, the
\* identifier execute() receives is that of the item the interface returned,
\* whatever the action (restart, or selected degraded to back), and it is the
\* empty string when the interface returned no item or was never run.
ShowReturnsIdentifier ==
    [][(/\ exc = NoExc /\ stack # <<>> /\ Top.pc = "show_ret"
        /\ Len(stack') = Len(stack) /\ Top'.pc = "call_show") =>
          LET items == VisibleItems(Depth) IN
          /\ Top.item # None =>
                Top'.selection = <<items[Top.item].item_type,
                                   items[Top.item].raw_value>>
          /\ Top.item = None => Top'.selection = NoId]_vars

\* A timed show() got an item with selected, returned back, and execute()
\* holds the item's identifier for the first show() of the normal loop.
DegradedBackKeepsId ==
    /\ exc = NoExc /\ stack # <<>>
    /\ Top.pc = "call_show" /\ Top.loop_timeout # 0 /\ Top.phase = "normal"
    /\ Top.selection # NoId


\* C20: the list the interface holds is the subsequence, in declared order,
\* of the declared children whose resolved text is non-empty, and an item
\* run_menu returns is one of that list, so its text is non-empty.
NonEmptyText == {k \in 1..Len(items_instances) : items_instances[k].text # <<>>}
VisibleSubsequence ==
    /\ runpc \in {"run", "run_menu", "returned"} =>
        /\ Len(interface_items) = Cardinality(NonEmptyText)
        /\ \A j \in 1..Len(interface_items) :
            \E k \in NonEmptyText :
                /\ Cardinality({i \in NonEmptyText : i <= k}) = j
                /\ interface_items[j] = items_instances[k]
    /\ (runpc = "returned" /\ run_result.item # None) =>
        /\ run_result.item \in 1..Len(interface_items)
        /\ interface_items[run_result.item].text # <<>>

\* run_menu returned the second item of the list, and the child declared
\* between the two was left out.
ReturnedPastHidden ==
    /\ runpc = "returned" /\ run_result.item = 2
    /\ Len(items_instances) = 3 /\ items_instances[2].text = <<>>


\* C21 as stated: every column of a rendered non-raw line, the text column
\* included, is as wide as the longest formatted field of its kind, so all
\* non-raw lines have the same length.
NonRawRows == {k \in 1..Len(interface_items) : interface_items[k].type # "raw"}
ColumnWidth(field) ==
    CHOOSE w \in 0..20 :
        /\ \A k \in NonRawRows : Len(formatted_texts(interface_items[k])[field]) <= w
        /\ \E k \in NonRawRows : Len(formatted_texts(interface_items[k])[field]) = w
Pad(n) == IF n > 0 THEN 1 ELSE 0
RawLiteral ==
    runpc \in {"run", "run_menu", "returned"} =>
        \A k \in 1..Len(interface_items) :
            interface_items[k].type = "raw" =>
                MenuLine(interface_items, k) = interface_items[k].text

\* A raw item whose text is an icon token has been rendered next to a
\* non-raw item.
RawTokenRendered ==
    /\ runpc = "run_menu"
    /\ NonRawRows # {}
    /\ \E k \in 1..Len(interface_items) :
        /\ interface_items[k].type = "raw"
        /\ text_apply_tokens(interface_items[k].text) # interface_items[k].text


\* C23: whenever the picker was confirmed on a row that is the rendered line
\* of an item of the list (rofi: code 0 and the line; fzf: key enter and the
\* line), run_menu returns selected with the first item of the list whose
\* rendered line equals that row.
ConfirmedRows ==
    {k \in 1..Len(interface_items) :
        picker_output.stdout =
            (IF interface = "rofi" THEN <<>> ELSE KeyEnter \o NL)
            \o MenuLine(interface_items, k) \o NL}
ConfirmedRowSelects ==
    (runpc = "returned" /\ picker_output.returncode = 0) =>
        \A k \in ConfirmedRows :
            /\ run_result.kind = "return"
            /\ run_result.action = "selected"
            /\ run_result.item \in ConfirmedRows
            /\ \A j \in ConfirmedRows : run_result.item <= j


\* C24: when a text-resolution task of a show() has failed in
\* set_shared_data() with NotImplementedError, that show() has not returned:
\* the error has left it and the process has exited with code 1.
UnimplementedFailed ==
    {i \in Current : tasks[i].pc = "failed" /\ tasks[i].variant \in SharedVariants}
UnimplementedIsFatal ==
    UnimplementedFailed # {} => showpc = "crashed" /\ exitCode = <<1>>


\* C25: when a child of a fixed-field variant has been built from a value
\* whose field count is not the required one, the child has failed with
\* DecodeStringError and show() has returned ("", "").
FieldCountAborts ==
    (unpacked # NotDecoded /\ unpacked.count # RequiredFields(unpacked.variant)) =>
        unpacked.error = "DecodeStringError" /\ unpacked.show = "aborted"


\* The value of a child as the level shift is to leave it: what each
\* separator of level + 1 delimits is shifted, and joined with the separator
\* of level.
RECURSIVE ExpectedShift(_, _, _)
ExpectedShift(v, seps, level) ==
    IF level + 1 > Len(seps) THEN v
    ELSE LET toks == split(v, seps[level + 1]) IN
         join(seps[level],
              [i \in 1..Len(toks) |-> ExpectedShift(toks[i], seps, level + 1)])

\* No character belongs to two separators of the list.
DisjointSeparators(seps) ==
    \A j, k \in 1..Len(seps) :
        j # k => \A a \in 1..Len(seps[j]), b \in 1..Len(seps[k]) :
                    seps[j][a] # seps[k][b]

\* set_items() ended as the level shift prescribes: one item per part of
\* the value between separators of level 0, its type the text before the
\* first separator of level 1, its value the rest with every separator one
\* level down; or sys.exit for a type that is not known.
ShiftedItems ==
    LET parts == split(inline_value, separators[1])
        type(p) == strip(split(p, separators[2])[1])
        rest(p) == join(separators[2], Tail(split(p, separators[2])))
    IN  IF \E i \in 1..Len(parts) : type(parts[i]) \notin ItemNames
        THEN inline_items.error = "SystemExit"
        ELSE /\ inline_items.error = "none"
             /\ Len(inline_items.items) = Len(parts)
             /\ \A i \in 1..Len(parts) :
                 /\ inline_items.items[i].item_type = type(parts[i])
                 /\ inline_items.items[i].value
                        = ExpectedShift(rest(parts[i]), separators, 1)

\* C26 as stated: for every separator list of at least one level,
\* set_items() shifts every separator in every child's value down by exactly
\* one level.
LevelShiftAnyList ==
    inline_items # NotSet =>
        /\ inline_items.error # "IndexError"
        /\ Len(separators) >= 2 => ShiftedItems

\* C26, amended: for every separator list of at least two levels whose
\* separators share no character, set_items() takes the parts of the value
\* between separators of level 0 as the children, splits type from value at
\* the first separator of level 1, and in the value turns every separator of
\* level k + 1 into that of level k, once.
LevelShift ==
    (inline_items # NotSet /\ Len(separators) >= 2 /\ DisjointSeparators(separators))
        => ShiftedItems

\* With the default separators, a child's value held separators of levels 1
\* and 2 and now holds those of levels 0 and 1.
ShiftedTwoLevels ==
    /\ separators = TOKEN_SEPARATORS
    /\ inline_items # NotSet /\ inline_items.error = "none"
    /\ \E i \in 1..Len(inline_items.items) :
        /\ Contains(inline_items.items[i].value, TOKEN_SEPARATORS[1])
        /\ Contains(inline_items.items[i].value, TOKEN_SEPARATORS[2])


\* C27: once get_configuration has returned, the interface is rofi or fzf,
\* and Menu.show() has an adapter to build.
InterfaceResolved ==
    /\ configuration_interface # NotConfigured =>
          configuration_interface \in {"rofi", "fzf"}
    /\ interface_class # NotConfigured =>
          interface_class \in {"RofiInterface", "FzfInterface"}


\* C28: whenever an exception reaches main_async, the process exits with
\* code 1 unless the exception is a SystemExit, and with the SystemExit's
\* own code when it is one: never with 0 or 250 for another exception.
FailureExitCode ==
    [][(exc # NoExc /\ stack # <<>> /\ Top.root) =>
          LET code == IF Len(stack) = 1 THEN exitCode'
                      ELSE stack'[Len(stack) - 1].returncode
          IN  /\ Len(stack') = Len(stack) - 1
              /\ exc.type # "SystemExit" => code = <<1>>
              /\ exc.type = "SystemExit" => code = <<exc.code>>]_vars

\* The outermost process has ended on an exception that was no SystemExit:
\* its exit code is 1.
FailureExitsOne ==
    /\ stack = <<>> /\ exc = NoExc /\ exitCode = <<1>>


\* C29: with the configuration file in place, the helper has issued no
\* start, stop, join or leave for a name that is not on the allow-list of
\* its kind; a systemd-unit toggle of such a name has printed an error and
\* ended with a nonzero code, and a network get or toggle of such a name has
\* printed nothing and ended with code 0.
AllowListEnforced ==
    (helper_result # NotRun /\ helper_host.config_exists) =>
        /\ \A k \in 1..Len(helper_result.commands) :
            helper_result.commands[k][3] \in
                (IF helper_result.commands[k][1] = "systemctl"
                 THEN helper_host.helper_systemd_toggle_allowed
                 ELSE helper_host.helper_zerotier_allowed)
        /\ (helper_args.option = "systemd_unit_toggle"
            /\ helper_args.name \notin helper_host.helper_systemd_toggle_allowed)
              => helper_result.printed # <<>> /\ helper_result.code # 0
        /\ (helper_args.option \in {"zerotier_network_get", "zerotier_network_toggle"}
            /\ helper_args.name \notin helper_host.helper_zerotier_allowed)
              => helper_result.printed = <<>> /\ helper_result.code = 0

\* C30: in a Menu run with keep_opened false and loop_timeout 0, when a
\* show() has returned with an item selected, execute() returns; and when
\* execute() returns after a show(), that show() ended with an item selected
\* or with back (an aborted show(), which returns the empty action, counts as
\* back; quit leaves by the exception, not by a return).
RunOnceClosesOnSelection ==
    [][(Returned /\ ~Top.keep_opened /\ Top.loop_timeout = 0) =>
          /\ (Top.action = "selected" => Len(stack') = Len(stack) - 1)
          /\ (Len(stack') = Len(stack) - 1
                => Top.action \in {"selected", "back", ""})]_vars


\* C31: once a show() has returned on a decode error none of its
\* text-resolution tasks is in flight, and no task of an earlier show() is in
\* flight while a later show() runs (so none can store into the shared cache
\* then).
AbortLeavesNoTask ==
    /\ showpc = "aborted" => \A i \in 1..Len(tasks) : ~InFlight(tasks[i])
    /\ \A i \in 1..Len(tasks) : tasks[i].stale => ~InFlight(tasks[i])


\* C32 as stated: while a nested Menu's show() runs, every entry the step of
\* the waiting parent had stored is still in the shared cache, and no step
\* of the nested menu changes it.
ParentComputed(v) == outer # <<>> /\ outer[Len(outer)].computed[v] # Absent
NestedShowKeepsEntries ==
    [][\A v \in SharedVariants :
          (Len(outer') >= Len(outer) /\ outer' # <<>>
             /\ outer'[Len(outer')].computed[v] # Absent)
          => shared'[v] = outer'[Len(outer')].computed[v]]_vars

\* C32, amended: the shared cache is one dictionary of the process that no
\* step owns: a nested Menu's show(), started while the parent's show() is
\* executing the selected item, empties it as every show() does, the
\* entries of the parent's step included, and the waiting show() of the
\* parent returns without a further cache access once the nested execute()
\* has returned.
NestedShowClears ==
    [][/\ Len(outer') > Len(outer) =>
            /\ showpc' = "set_items"
            /\ \A v \in SharedVariants : shared'[v] = Absent
       /\ Len(outer') < Len(outer) =>
            showpc' = "returned" /\ shared' = shared /\ calls' = calls]_vars

\* A nested show() has just started over a parent whose step had stored an
\* entry.
NestedOverComputed ==
    /\ showpc = "set_items"
    /\ \E v \in SharedVariants : ParentComputed(v)


\* C33: in the execute() of a MenuExternal, once the program has declared its
\* options, a pass called while the declared loop-timeout is > 0 and the
\* timed phase has not been ended by back is timed with that timeout; and
\* when an untimed show() of the normal loop has returned with keep-opened 0
\* declared, execute() returns.
DeclaredOptionsGovern ==
    [][/\ (external.pc = "call_show" /\ external'.pc = "show_ret"
            /\ external.declared # NotDeclared
            /\ external.declared.loop_timeout > 0 /\ ~external.broke)
          => external'.passed = external.declared.loop_timeout
       /\ (external.pc = "show_ret" /\ external.phase = "normal"
            /\ ~external.declared.keep_opened)
          => external'.pc = "returned"]_vars


\* C34: a show() that is executing an item does so on the item the interface
\* returned, with final action selected reported as selected by the
\* interface, timeout 0 and a type other than notification; and within one
\* show() an item's execute() is entered at most once: only from the return
\* of the interface, never again after it has returned.
ExecutingSelected(f, depth) ==
    /\ f.item # None
    /\ f.action = "selected" /\ f.iaction = "selected"
    /\ ShowTimeout(f) = 0
    /\ VisibleItems(depth)[f.item].type # "notification"
ExecutesSelectedOnce ==
    /\ [](\A k \in Frames : stack[k].pc = "exec" => ExecutingSelected(stack[k], k))
    /\ [][\A k \in Frames :
             (k <= Len(stack') /\ stack[k].pc # "exec" /\ stack'[k].pc = "exec")
                => stack[k].pc \in {"picker", "wait"}]_vars

\* An item is being executed in a Menu, and in the Menu it opened the
\* interface has returned the highlighted item together with restart or back.
ItemReturnedWithoutSelection ==
    \E j, k \in Frames :
        /\ j < k /\ stack[j].pc = "exec"
        /\ stack[k].pc = "show_ret" /\ stack[k].item # None
        /\ stack[k].iaction \in {"restart", "back"}


\* C35 as stated: every show() below the innermost one is waiting in the
\* execute() of its selected item, and whenever the picker has reported back
\* in a nested Menu, that Menu's execute() returns to the show() of its
\* parent, which returns selected.
NestedWaits == \A k \in 1..(Len(stack) - 1) : stack[k].pc = "exec"
SelectionEndsTimedPhase ==
    /\ [](\A k \in Frames :
            (stack[k].iaction = "selected" /\ ShowTimeout(stack[k]) # 0)
               => stack[k].pc # "exec")
    /\ [][/\ (Returned /\ Top.phase = "loop" /\ Top.iaction = "selected"
                /\ Top.item # None) =>
                /\ Len(stack') = Len(stack)
                /\ Top'.pc = "call_show" /\ ShowTimeout(Top') = 0
                /\ Top'.selection = identifier(VisibleItems(Depth)[Top.item])
          /\ (Returned /\ Top.phase = "loop" /\ Top.tmo) =>
                /\ Len(stack') = Len(stack)
                /\ Top'.pc = "call_show"
                /\ ShowTimeout(Top') = Top.loop_timeout
                /\ Top'.selection = NoId
          /\ (exc = NoExc /\ stack # <<>> /\ Top.pc = "call_show"
                /\ Top'.pc = "picker") =>
                Top'.last_item_id = Top.selection]_vars

\* A timed pass has returned after the user selected an item in it.
SelectedInTimedPass ==
    /\ Returned /\ Top.phase = "loop" /\ Top.iaction = "selected"
    /\ Top.item # None /\ Top.action = "back"
    /\ identifier(VisibleItems(Depth)[Top.item]) # NoId


\* C37: the root Menu built by the menu command from a title that does not
\* contain the first delimiter, a loop timeout and a run-once flag has that
\* title, that loop timeout, keep_opened equal to not run-once and an empty
\* remaining value; and value2menu_options of a value whose first token is
\* no option name returns the defaults and the whole value.
OptionsRoundTrip ==
    options.built # NotBuilt =>
        /\ (options.kind = "command"
              /\ Len(split(options.title, options.sep)) = 1) =>
              options.built = [title |-> options.title,
                               keep_opened |-> ~options.run_once,
                               loop_timeout |-> options.loop_timeout,
                               error |-> "none", value |-> <<>>]
        /\ (options.kind = "value"
              /\ lower(strip(split(options.value, options.sep)[1])) \notin OptionNames) =>
              options.built = [title |-> DefaultOptions.title,
                               keep_opened |-> TRUE, loop_timeout |-> 0,
                               error |-> "none", value |-> options.value]


\* C38: a lock is held only while the set_shared_data() of a task of that
\* variant is running, a task waits for a lock only while it is held or
\* being handed over, and every task that is inside get_shared_data()
\* (waiting for the lock, or computing under it) eventually leaves it: by
\* return, by the exception of set_shared_data(), or cancelled with the
\* process.
InsideGetSharedData(i) ==
    i <= Len(tasks) /\ tasks[i].pc \in {"waiting", "computing"}
LockHeldByRunning ==
    \A v \in SharedVariants :
        /\ locked[v] =>
              \E i \in 1..Len(tasks) :
                  tasks[i].variant = v /\ tasks[i].pc = "computing"
        /\ \A k \in 1..Len(waiters[v]) :
              /\ waiters[v][k] <= Len(tasks)
              /\ tasks[waiters[v][k]].pc = "waiting"
              /\ tasks[waiters[v][k]].variant = v
SharedDataReturns ==
    /\ []LockHeldByRunning
    /\ \A i \in 1..MaxSiblings :
          InsideGetSharedData(i) ~> ~(i <= Len(tasks) /\ InFlight(tasks[i]))

\* One task waits for the lock of its variant while a sibling computes under
\* it, and a task of the other variant computes at the same time.
WaitingBehindSibling ==
    \E i, j, k \in 1..Len(tasks) :
        /\ tasks[i].pc = "waiting" /\ tasks[j].pc = "computing"
        /\ tasks[i].variant = tasks[j].variant
        /\ tasks[k].pc = "computing" /\ tasks[k].variant # tasks[j].variant


\* C39: a name is resolved to a class exactly when, trimmed and lower-cased,
\* it is one of the eight registered names; for any other name the process
\* ends with exit code 1, never with the quit sentinel, also when the name
\* was read in the show() of a nested MenuInline or MenuExternal.
NormalisedName == lower(strip(DiscriminantName(registry.call)))
UnknownTypeExitsWithOne ==
    registry # <<>> =>
        /\ registry.pc = "resolved" =>
              NormalisedName \in RegisteredNames /\ registry.klass # NoClass
        /\ registry.pc \in {"raise", "exited"} =>
              /\ NormalisedName \notin RegisteredNames
              /\ registry.exc = SystemExit(1)
        /\ registry.pc = "exited" =>
              registry.code = <<1>> /\ registry.code # <<QUIT_EXIT_CODE>>
        /\ registry.pc # "exited" => registry.code = Running

\* An unknown name read in the show() of a nested MenuExternal has ended the
\* process.
UnknownNameExited ==
    /\ registry # <<>>
    /\ registry.pc = "exited" /\ registry.call.route = "external"
    /\ registry.call.depth >= 2


\* C40: build() runs pw-dump at most 10 times and no more once an output has
\* parsed, it always ends, and after 10 failed attempts it ends without an
\* exception and with an empty node list.
BuildAttemptsBounded ==
    /\ pipewire.attempt <= PW_DUMP_ATTEMPTS
    /\ pipewire.attempt = pipewire.failures + (IF pipewire.parsed THEN 1 ELSE 0)
    /\ pipewire.parsed => pipewire.pc # "loop"
    /\ pipewire.failures = PW_DUMP_ATTEMPTS =>
          /\ pipewire.pc # "raised"
          /\ pipewire.nodes = <<>>
          /\ pipewire.pwdump.items = <<>>
====
